---- MODULE Spec2Model ----
(***************************************************************************)
(* Verification model of the AS608 fingerprint sensor firmware.            *)
(*                                                                         *)
(*   Spec        the asynchronous engine of components/khoa_as608          *)
(*               (AS608::startEnroll, cancelEnroll, startMatch,            *)
(*               cancelMatch, process, init, deinit)                       *)
(***************************************************************************)
EXTENDS Integers, Sequences, FiniteSets, TLC

VARIABLES
    \* ---- AS608 engine (components/khoa_as608/as608.hpp:274-295) ----
    m_initialized,
    m_enrollState,
    m_enrollTargetId,
    m_enrollStep,
    m_enrollRetryCount,
    m_matchState,
    m_matchRetryCount,
    \* ---- observation of the last engine call ----
    lastOp,        \* name of the last public method called
    lastRet,       \* its return value ("void" for void methods)
    events,        \* events handed to fireEvent during the last call
    sent,          \* commands handed to executeCommand during the last call
    rx,            \* outcomes of those commands, in order
    \* ---- observation of the current enrollment session ----
    sessComplete,  \* ids carried by the EnrollComplete events of the session
    sessFailed,    \* number of EnrollFailed events of the session
    sessStore,     \* number of StoreChar commands of the session
    scriptPos,     \* how far the sensor's answers follow HappyScript (-1: off)
    sessPhase,     \* how far the commands of the session follow the
                   \* enrollment procedure (-1: a command out of order)
    sessRemoved,   \* number of FingerRemoved events of the session
    captureFails,  \* per state machine: how many of the failures counted in
                   \* its retry counter were failed captures (GetImage)
    \* ---- finger module (main/finger/finger.c:32-37) ----
    s_state,
    s_enroll_id,
    s_finger_on,
    s_template_count,
    s_queue,       \* messages waiting in the command queue
    wpc,           \* finger_task: "top" or the driver call it is blocked in
    wcnt,          \* wait_finger_remove: cnt
    wcont,         \* wait_finger_remove: where it was called from
    cpc,           \* calling task: "idle" or the driver call it is blocked in
    fposted,       \* events posted by the last step of the finger module
    \* ---- one command/response exchange on the UART ----
    w_frame,       \* the well-formed response frame of the sensor
    w_garbage,     \* number of garbage bytes in front of it on the line
    w_corrupt,     \* offset of the byte corrupted on the line (-1: none)
    w_stream,      \* the bytes on the line
    sc_res,        \* as608_send_cmd: its result (ret "none" before the call)
    sc_size,       \* as608_send_cmd: size of the array resp_data points to
    k_wire,        \* AS608Uart::receive: bytes not yet read from the UART
    k_buf,         \* AS608Uart::receive: buffer[0 .. total_read)
    k_res,         \* AS608::executeCommand: its result (ret "none" before)
    \* ---- one call of a command function of the driver (as608.c) ----
    d_fn,          \* the function called ("none" before the first call)
    d_arg,         \* its argument (buffer id, slot id; 0 when it has none)
    d_retry,       \* the loop variable retry of as608_gen_char / as608_search
    d_sent,        \* commands transmitted by as608_send_cmd during the call
    d_rx,          \* what each as608_send_cmd of the call returned
    d_ret,         \* return value of the call ("none" while it runs)
    \* ---- the packet builders and response parsers called on one input ----
    q_mode,        \* "build" or "parse": which functions the input is for
    q_cmd,         \* builders: the opcode
    q_params,      \* builders: params[0 .. params_len)
    q_buffer,      \* parsers: buffer[0 .. len)
    pkt_c,         \* result of as608_build_cmd_packet (NoPacket before)
    pkt_k,         \* result of AS608Protocol::buildCommandPacket
    pkt_s,         \* result of AS608Sensor::BuildCommandPacket
    res_c,         \* result of as608_parse_response (ret "none" before)
    res_k,         \* result of AS608Protocol::parseResponse
    res_s,         \* result of AS608Sensor::ParseResponse
    \* ---- AS608Manager (components/as608/as608_manager.cpp) ----
    initialized_,
    mutex_,        \* the thread that owns mutex_ (0: free)
    mgr_stack,     \* per thread: the calls of manager methods in progress
    mgr_ret,       \* per thread: what its last call returned ("none" before)
    \* ---- the template library of the sensor ----
    lib_slots,     \* slot ids that hold a template
    lib_last,      \* the last operation: its kind, slot id, and whether the
                   \* slot was free before it
    \* ---- the application controller (main/app/app.c) ----
    app_state,     \* s_state of app.c
    evt_loop       \* FINGER_EVENTs posted to the event loop, not yet handled

engineVars == <<m_initialized, m_enrollState, m_enrollTargetId, m_enrollStep,
                m_enrollRetryCount, m_matchState, m_matchRetryCount>>
engineObs  == <<lastOp, lastRet, events, sent, rx,
                sessComplete, sessFailed, sessStore, scriptPos,
                sessPhase, sessRemoved, captureFails>>

fingerVars == <<s_state, s_enroll_id, s_finger_on, s_template_count, s_queue,
                wpc, wcnt, wcont, cpc, fposted>>

wireVars == <<w_frame, w_garbage, w_corrupt, w_stream, sc_res, sc_size,
              k_wire, k_buf, k_res>>

driverVars == <<d_fn, d_arg, d_retry, d_sent, d_rx, d_ret>>

codecVars == <<q_mode, q_cmd, q_params, q_buffer,
               pkt_c, pkt_k, pkt_s, res_c, res_k, res_s>>

managerVars == <<initialized_, mutex_, mgr_stack, mgr_ret>>

libraryVars == <<lib_slots, lib_last>>

appVars == <<app_state, evt_loop>>

vars == <<engineVars, engineObs, fingerVars, wireVars, driverVars,
    codecVars,
    managerVars,
    libraryVars,
    appVars>>

\* what the engine (the finger module, the transport) leaves alone
outsideEngine == <<fingerVars, wireVars, driverVars,
    codecVars,
    managerVars,
    libraryVars,
    appVars>>
outsideFinger == <<engineVars, engineObs, wireVars, driverVars,
    codecVars,
    managerVars,
    libraryVars,
    appVars>>
outsideWire   == <<engineVars, engineObs, fingerVars, driverVars,
    codecVars,
    managerVars,
    libraryVars,
    appVars>>
outsideDriver == <<engineVars, engineObs, fingerVars, wireVars,
    codecVars,
    managerVars,
    libraryVars,
    appVars>>

(***************************************************************************)
(* Constants of the program                                                *)
(***************************************************************************)
ESP_OK                   == "ESP_OK"
ESP_FAIL                 == "ESP_FAIL"
ESP_ERR_INVALID_ARG      == "ESP_ERR_INVALID_ARG"
ESP_ERR_INVALID_STATE    == "ESP_ERR_INVALID_STATE"
ESP_ERR_INVALID_SIZE     == "ESP_ERR_INVALID_SIZE"
ESP_ERR_NOT_FOUND        == "ESP_ERR_NOT_FOUND"
ESP_ERR_TIMEOUT          == "ESP_ERR_TIMEOUT"
ESP_ERR_INVALID_RESPONSE == "ESP_ERR_INVALID_RESPONSE"
ESP_ERR_INVALID_CRC      == "ESP_ERR_INVALID_CRC"

Ok             == 0
ErrNoFinger    == 2
ErrNoMatch     == 8
ErrNotFound    == 9
ErrCombineFail == 10
ErrBadLocation == 11

MAX_RETRY_COUNT    == 3
ENROLL_TOTAL_STEPS == 6
MAX_STORE_ID       == 200
DEFAULT_LIBRARY_SIZE == 163

(***************************************************************************)
(* Bounds of the model                                                     *)
(***************************************************************************)
\* target ids offered to startEnroll: -1 .. MaxTargetId, plus the ids around
\* the range check of the code
MaxTargetId == 5

TargetIds ==
    (-1 .. MaxTargetId)
    \cup {DEFAULT_LIBRARY_SIZE, MAX_STORE_ID, MAX_STORE_ID + 1}

(***************************************************************************)
(* AS608::executeCommand seen from its callers: the outcome of one         *)
(* request/response cycle is either an error of the transport or of the    *)
(* parser, or a confirmation code with its payload.                        *)
(***************************************************************************)
TransportErrors ==
    { ESP_FAIL,                  \* AS608Uart::send: short write
      ESP_ERR_TIMEOUT,           \* AS608Uart::send / receive: timeout
      ESP_ERR_INVALID_SIZE,      \* parseResponse: too short
      ESP_ERR_INVALID_RESPONSE,  \* parseResponse: header or packet type
      ESP_ERR_INVALID_CRC }      \* parseResponse: checksum

ConfirmCodes ==
    {Ok, ErrNoFinger, ErrNoMatch, ErrNotFound, ErrCombineFail, ErrBadLocation}

\* payloads the sensor attaches: none, or slot id 5 with score 60
Payloads == { <<>>, <<0, 5, 0, 60>> }

Answer(c) == [ret |-> ESP_OK, confirm |-> c, data |-> <<>>]

Outcomes ==
    [ret : TransportErrors, confirm : {Ok}, data : {<<>>}]
    \cup [ret : {ESP_OK}, confirm : ConfirmCodes, data : {<<>>}]
    \cup [ret : {ESP_OK}, confirm : {Ok}, data : Payloads]

\* a state machine that is Idle sends nothing and consumes no outcome
OutcomesFor(state) == IF state = "Idle" THEN {Answer(Ok)} ELSE Outcomes

\* the outcomes consumed by a call that sent the commands tx
Rx(tx, o) == IF tx = << >> THEN << >> ELSE << o >>

\* result of executeCommand for the wire outcome o
executeCommand_TimeoutIsNoFinger(o) ==
    IF ~m_initialized
    THEN [ret |-> ESP_ERR_INVALID_STATE, confirm |-> Ok, data |-> <<>>]
    ELSE IF o.ret = ESP_ERR_TIMEOUT THEN Answer(ErrNoFinger)
    ELSE o
executeCommand(o) ==
    IF ~m_initialized
    THEN [ret |-> ESP_ERR_INVALID_STATE, confirm |-> Ok, data |-> <<>>]
    ELSE o

\* the commands executeCommand puts on the wire for one call
Tx(cmd, params) ==
    IF m_initialized THEN << [cmd |-> cmd, params |-> params] >> ELSE << >>

(***************************************************************************)
(* Synchronous operations                                                  *)
(***************************************************************************)
readImage_NoFingerIsError(o) ==
    LET r == executeCommand(o) IN
    IF r.ret # ESP_OK THEN r.ret
    ELSE IF r.confirm # Ok THEN ESP_FAIL
    ELSE ESP_OK

readImage(o) ==
    LET r == executeCommand(o) IN
    IF r.ret # ESP_OK THEN r.ret
    ELSE IF r.confirm = ErrNoFinger THEN ESP_ERR_NOT_FOUND
    ELSE IF r.confirm # Ok THEN ESP_FAIL
    ELSE ESP_OK

genChar_IgnoreConfirm(bufferId, o) ==
    LET r == executeCommand(o) IN
    IF r.ret # ESP_OK THEN r.ret
    ELSE ESP_OK
genChar(bufferId, o) ==
    LET r == executeCommand(o) IN
    IF r.ret # ESP_OK THEN r.ret
    ELSE IF r.confirm # Ok THEN ESP_FAIL
    ELSE ESP_OK

regModel_IgnoreConfirm(o) ==
    LET r == executeCommand(o) IN
    IF r.ret # ESP_OK THEN r.ret
    ELSE ESP_OK

regModel(o) ==
    LET r == executeCommand(o) IN
    IF r.ret # ESP_OK THEN r.ret
    ELSE IF r.confirm # Ok THEN ESP_FAIL
    ELSE ESP_OK

\* store(id): the range check comes before any I/O
storeSends(id) == ~(id < 0 \/ id > MAX_STORE_ID)

store(id, o) ==
    IF ~storeSends(id) THEN ESP_ERR_INVALID_ARG
    ELSE LET r == executeCommand(o) IN
         IF r.ret # ESP_OK THEN r.ret
         ELSE IF r.confirm # Ok THEN ESP_FAIL
         ELSE ESP_OK

\* search(&matchId, &score): [ret, id, score]
search(o) ==
    LET r == executeCommand(o) IN
    IF r.ret # ESP_OK THEN [ret |-> r.ret, id |-> -1, score |-> 0]
    ELSE IF r.confirm \in {ErrNotFound, ErrNoMatch}
         THEN [ret |-> ESP_ERR_NOT_FOUND, id |-> -1, score |-> 0]
    ELSE IF r.confirm # Ok THEN [ret |-> ESP_FAIL, id |-> -1, score |-> 0]
    ELSE IF Len(r.data) >= 4
         THEN [ret |-> ESP_OK, id |-> r.data[1] * 256 + r.data[2],
               score |-> r.data[3] * 256 + r.data[4]]
    ELSE [ret |-> ESP_FAIL, id |-> -1, score |-> 0]

(***************************************************************************)
(* Events                                                                  *)
(***************************************************************************)
\* EventData(): id(-1), score(0), step(0), totalSteps(0), error(ESP_OK)
EventData == [id |-> -1, score |-> 0, step |-> 0, totalSteps |-> 0,
              error |-> ESP_OK]

Ev(type, data) == [type |-> type, data |-> data]

(***************************************************************************)
(* Enrollment state machine                                                *)
(***************************************************************************)
\* the enrollment fields as a record, and the fields after resetEnrollState
EnrollFields ==
    [state |-> m_enrollState, target |-> m_enrollTargetId,
     step |-> m_enrollStep, retry |-> m_enrollRetryCount]

resetEnrollState_KeepsRetry ==
    [state |-> "Idle", target |-> -1, step |-> 0,
     retry |-> m_enrollRetryCount + 1]
resetEnrollState ==
    [state |-> "Idle", target |-> -1, step |-> 0, retry |-> 0]

\* return value of startEnroll(targetId)
startEnrollRet_NoMatchCheck(targetId) ==
    IF ~m_initialized THEN ESP_ERR_INVALID_STATE
    ELSE IF m_enrollState # "Idle" THEN ESP_ERR_INVALID_STATE
    ELSE IF targetId < 0 \/ targetId > MAX_STORE_ID THEN ESP_ERR_INVALID_ARG
    ELSE ESP_OK

startEnrollRet(targetId) ==
    IF ~m_initialized THEN ESP_ERR_INVALID_STATE
    ELSE IF m_enrollState # "Idle" THEN ESP_ERR_INVALID_STATE
    ELSE IF m_matchState # "Idle" THEN ESP_ERR_INVALID_STATE
    ELSE IF targetId < 0 \/ targetId > MAX_STORE_ID THEN ESP_ERR_INVALID_ARG
    ELSE ESP_OK

\* one call of processEnroll with the wire outcome o:
\* the new enrollment fields, the events fired and the commands sent
processEnroll(o) ==
    LET ed == [EventData EXCEPT !.id = m_enrollTargetId,
                                !.totalSteps = ENROLL_TOTAL_STEPS]
        cur == EnrollFields
        failed(ret) == Ev("EnrollFailed", [ed EXCEPT !.error = ret])
    IN
    CASE m_enrollState = "WaitFinger1" ->
           LET ret == readImage(o) IN
           IF ret = ESP_OK
           THEN [f |-> [cur EXCEPT !.state = "GenChar1"],
                 ev |-> << Ev("FingerDetected", [ed EXCEPT !.step = 1]) >>,
                 tx |-> Tx("GetImage", << >>)]
           ELSE IF ret # ESP_ERR_NOT_FOUND
           THEN IF m_enrollRetryCount + 1 >= MAX_RETRY_COUNT
                THEN [f |-> resetEnrollState, ev |-> << failed(ret) >>,
                      tx |-> Tx("GetImage", << >>)]
                ELSE [f |-> [cur EXCEPT !.retry = @ + 1], ev |-> << >>,
                      tx |-> Tx("GetImage", << >>)]
           ELSE [f |-> cur, ev |-> << >>, tx |-> Tx("GetImage", << >>)]
      [] m_enrollState = "GenChar1" ->
           LET ret == genChar(1, o) IN
           IF ret = ESP_OK
           THEN [f |-> [cur EXCEPT !.step = 1, !.state = "WaitRemoveFinger",
                                   !.retry = 0],
                 ev |-> << Ev("EnrollStep", [ed EXCEPT !.step = 1]) >>,
                 tx |-> Tx("GenChar", << 1 >>)]
           ELSE IF m_enrollRetryCount + 1 >= MAX_RETRY_COUNT
           THEN [f |-> resetEnrollState, ev |-> << failed(ret) >>,
                 tx |-> Tx("GenChar", << 1 >>)]
           ELSE [f |-> [cur EXCEPT !.retry = @ + 1, !.state = "WaitFinger1"],
                 ev |-> << >>, tx |-> Tx("GenChar", << 1 >>)]
      [] m_enrollState = "WaitRemoveFinger" ->
           LET ret == readImage(o) IN
           IF ret = ESP_ERR_NOT_FOUND
           THEN [f |-> [cur EXCEPT !.step = 2, !.state = "WaitFinger2",
                                   !.retry = 0],
                 ev |-> << Ev("FingerRemoved", [ed EXCEPT !.step = 2]),
                           Ev("EnrollStep", [ed EXCEPT !.step = 2]) >>,
                 tx |-> Tx("GetImage", << >>)]
           ELSE [f |-> cur, ev |-> << >>, tx |-> Tx("GetImage", << >>)]
      [] m_enrollState = "WaitFinger2" ->
           LET ret == readImage(o) IN
           IF ret = ESP_OK
           THEN [f |-> [cur EXCEPT !.state = "GenChar2"],
                 ev |-> << Ev("FingerDetected", [ed EXCEPT !.step = 3]) >>,
                 tx |-> Tx("GetImage", << >>)]
           ELSE IF ret # ESP_ERR_NOT_FOUND
           THEN IF m_enrollRetryCount + 1 >= MAX_RETRY_COUNT
                THEN [f |-> resetEnrollState, ev |-> << failed(ret) >>,
                      tx |-> Tx("GetImage", << >>)]
                ELSE [f |-> [cur EXCEPT !.retry = @ + 1], ev |-> << >>,
                      tx |-> Tx("GetImage", << >>)]
           ELSE [f |-> cur, ev |-> << >>, tx |-> Tx("GetImage", << >>)]
      [] m_enrollState = "GenChar2" ->
           LET ret == genChar(2, o) IN
           IF ret = ESP_OK
           THEN [f |-> [cur EXCEPT !.step = 3, !.state = "CreateModel",
                                   !.retry = 0],
                 ev |-> << Ev("EnrollStep", [ed EXCEPT !.step = 3]) >>,
                 tx |-> Tx("GenChar", << 2 >>)]
           ELSE IF m_enrollRetryCount + 1 >= MAX_RETRY_COUNT
           THEN [f |-> resetEnrollState, ev |-> << failed(ret) >>,
                 tx |-> Tx("GenChar", << 2 >>)]
           ELSE [f |-> [cur EXCEPT !.retry = @ + 1, !.state = "WaitFinger2"],
                 ev |-> << >>, tx |-> Tx("GenChar", << 2 >>)]
      [] m_enrollState = "CreateModel" ->
           LET ret == regModel(o) IN
           IF ret = ESP_OK
           THEN [f |-> [cur EXCEPT !.step = 4, !.state = "StoreModel"],
                 ev |-> << Ev("EnrollStep", [ed EXCEPT !.step = 4]) >>,
                 tx |-> Tx("RegModel", << >>)]
           ELSE [f |-> resetEnrollState, ev |-> << failed(ret) >>,
                 tx |-> Tx("RegModel", << >>)]
      [] m_enrollState = "StoreModel" ->
           LET ret == store(m_enrollTargetId, o)
               tx  == IF storeSends(m_enrollTargetId)
                      THEN Tx("StoreChar", << 1, m_enrollTargetId \div 256,
                                              m_enrollTargetId % 256 >>)
                      ELSE << >>
           IN
           IF ret = ESP_OK
           THEN [f |-> resetEnrollState,
                 ev |-> << Ev("EnrollStep", [ed EXCEPT !.step = 5]),
                           Ev("EnrollComplete", [ed EXCEPT !.step = 6]) >>,
                 tx |-> tx]
           ELSE [f |-> resetEnrollState, ev |-> << failed(ret) >>, tx |-> tx]
      [] OTHER -> [f |-> cur, ev |-> << >>, tx |-> << >>]

(***************************************************************************)
(* Match state machine                                                     *)
(***************************************************************************)
MatchFields == [state |-> m_matchState, retry |-> m_matchRetryCount]

resetMatchState_KeepsRetry ==
    [state |-> "Idle", retry |-> m_matchRetryCount]
resetMatchState == [state |-> "Idle", retry |-> 0]

\* return value of startMatch()
startMatchRet_NoEnrollCheck ==
    IF ~m_initialized THEN ESP_ERR_INVALID_STATE
    ELSE IF m_matchState # "Idle" THEN ESP_ERR_INVALID_STATE
    ELSE ESP_OK

startMatchRet ==
    IF ~m_initialized THEN ESP_ERR_INVALID_STATE
    ELSE IF m_matchState # "Idle" THEN ESP_ERR_INVALID_STATE
    ELSE IF m_enrollState # "Idle" THEN ESP_ERR_INVALID_STATE
    ELSE ESP_OK

processMatch(o) ==
    LET ed  == EventData
        cur == MatchFields
    IN
    CASE m_matchState = "WaitFinger" ->
           LET ret == readImage(o) IN
           IF ret = ESP_OK
           THEN [f |-> [cur EXCEPT !.state = "GenChar"],
                 ev |-> << Ev("FingerDetected", ed) >>,
                 tx |-> Tx("GetImage", << >>)]
           ELSE IF ret # ESP_ERR_NOT_FOUND
           THEN IF m_matchRetryCount + 1 >= MAX_RETRY_COUNT
                THEN [f |-> resetMatchState,
                      ev |-> << Ev("Error", [ed EXCEPT !.error = ret]) >>,
                      tx |-> Tx("GetImage", << >>)]
                ELSE [f |-> [cur EXCEPT !.retry = @ + 1], ev |-> << >>,
                      tx |-> Tx("GetImage", << >>)]
           ELSE [f |-> cur, ev |-> << >>, tx |-> Tx("GetImage", << >>)]
      [] m_matchState = "GenChar" ->
           LET ret == genChar(1, o) IN
           IF ret = ESP_OK
           THEN [f |-> [cur EXCEPT !.state = "Search", !.retry = 0],
                 ev |-> << >>, tx |-> Tx("GenChar", << 1 >>)]
           ELSE IF m_matchRetryCount + 1 >= MAX_RETRY_COUNT
           THEN [f |-> resetMatchState,
                 ev |-> << Ev("MatchFailed", [ed EXCEPT !.error = ret]) >>,
                 tx |-> Tx("GenChar", << 1 >>)]
           ELSE [f |-> [cur EXCEPT !.retry = @ + 1, !.state = "WaitFinger"],
                 ev |-> << >>, tx |-> Tx("GenChar", << 1 >>)]
      [] m_matchState = "Search" ->
           LET r  == search(o)
               tx == Tx("Search", << 1, 0, 0, 0, 163 >>)
           IN
           IF r.ret = ESP_OK
           THEN [f |-> resetMatchState,
                 ev |-> << Ev("MatchOk", [ed EXCEPT !.id = r.id,
                                                    !.score = r.score]) >>,
                 tx |-> tx]
           ELSE IF r.ret = ESP_ERR_NOT_FOUND
           THEN [f |-> resetMatchState, ev |-> << Ev("MatchFailed", ed) >>,
                 tx |-> tx]
           ELSE [f |-> resetMatchState,
                 ev |-> << Ev("Error", [ed EXCEPT !.error = r.ret]) >>,
                 tx |-> tx]
      [] OTHER -> [f |-> cur, ev |-> << >>, tx |-> << >>]

(***************************************************************************)
(* Observation of the enrollment session                                   *)
(***************************************************************************)
\* the answers of the sensor on the literal happy path (enrollment of slot 5)


HappyScript ==
    << Answer(Ok),           \* GetImage
       Answer(Ok),           \* GenChar(1)
       Answer(ErrNoFinger),  \* GetImage: finger removed
       Answer(Ok),           \* GetImage
       Answer(Ok),           \* GenChar(2)
       Answer(Ok),           \* RegModel
       Answer(Ok) >>         \* Store(5)

CountType(evs, type) == Cardinality({i \in 1..Len(evs) : evs[i].type = type})

CountCmd(txs, cmd) == Cardinality({i \in 1..Len(txs) : txs[i].cmd = cmd})

CompleteIds(evs) ==
    LET idx == {i \in 1..Len(evs) : evs[i].type = "EnrollComplete"}
        F[i \in 0..Len(evs)] ==
            IF i = 0 THEN << >>
            ELSE IF i \in idx THEN Append(F[i-1], evs[i].data.id) ELSE F[i-1]
    IN F[Len(evs)]

\* the script position after processEnroll consumed the outcome o
ScriptNext(o) ==
    IF m_enrollState = "Idle" THEN scriptPos
    ELSE IF scriptPos >= 0 /\ scriptPos < Len(HappyScript)
            /\ o = HappyScript[scriptPos + 1]
         THEN scriptPos + 1
    ELSE -1

\* the answer to a command: success, "no finger", or a failure
IsOk(o)       == o.ret = ESP_OK /\ o.confirm = Ok
IsNoFinger(o) == o.ret = ESP_OK /\ o.confirm = ErrNoFinger

\* the enrollment procedure as a sequence of phases, followed from the
\* commands on the wire and their answers alone:
\*   0 GetImage until Ok          1 GenChar(1)   (failure: back to 0)
\*   2 GetImage until NoFinger    3 GetImage until Ok
\*   4 GenChar(2) (failure: back to 3)           5 RegModel
\*   6 Store(buffer 1, m_enrollTargetId)         7 stored
\*   8 RegModel or Store failed
\* A command other than the one of the phase, a second command in one call
\* or a command after phase 6 leads to -1.
PhaseNext(tx, o) ==
    IF tx = << >> THEN sessPhase
    ELSE IF Len(tx) # 1 \/ sessPhase \notin 0..6 THEN -1
    ELSE LET c == tx[1] IN
    CASE sessPhase = 0 /\ c = [cmd |-> "GetImage", params |-> << >>] ->
           IF IsOk(o) THEN 1 ELSE 0
      [] sessPhase = 1 /\ c = [cmd |-> "GenChar", params |-> << 1 >>] ->
           IF IsOk(o) THEN 2 ELSE 0
      [] sessPhase = 2 /\ c = [cmd |-> "GetImage", params |-> << >>] ->
           IF IsNoFinger(o) THEN 3 ELSE 2
      [] sessPhase = 3 /\ c = [cmd |-> "GetImage", params |-> << >>] ->
           IF IsOk(o) THEN 4 ELSE 3
      [] sessPhase = 4 /\ c = [cmd |-> "GenChar", params |-> << 2 >>] ->
           IF IsOk(o) THEN 5 ELSE 3
      [] sessPhase = 5 /\ c = [cmd |-> "RegModel", params |-> << >>] ->
           IF IsOk(o) THEN 6 ELSE 8
      [] sessPhase = 6 /\ c = [cmd |-> "StoreChar",
                               params |-> << 1, m_enrollTargetId \div 256,
                                             m_enrollTargetId % 256 >>] ->
           IF IsOk(o) THEN 7 ELSE 8
      [] OTHER -> -1

(***************************************************************************)
(* Actions: the public methods of AS608                                    *)
(***************************************************************************)
\* result of as608_send_cmd: return value, *resp_len, resp_data[0 .. *resp_len)
Result(ret, len, data) == [ret |-> ret, len |-> len, data |-> data]

NoResult == Result("none", 0, << >>)

\* result of parseResponse: return value, response.confirmCode,
\* response.dataLen and the bytes response.data points at
ParseResult(ret, confirm, len, data) ==
    [ret |-> ret, confirm |-> confirm, len |-> len, data |-> data]

NoParseResult == ParseResult("none", 0, 0, << >>)

\* no exchange on the line
WireStatic ==
    /\ w_frame = << >>
    /\ w_garbage = 0
    /\ w_corrupt = -1
    /\ w_stream = << >>
    /\ sc_res = NoResult
    /\ sc_size = 8
    /\ k_wire = << >>
    /\ k_buf = << >>
    /\ k_res = NoParseResult

\* no call of a driver function was made
DriverStatic ==
    /\ d_fn = "none"
    /\ d_arg = 0
    /\ d_retry = 0
    /\ d_sent = << >>
    /\ d_rx = << >>
    /\ d_ret = "none"

\* result of a packet builder: the returned size and buffer[0 .. size)
Built(size, bytes) == [size |-> size, bytes |-> bytes]

NoPacket == Built(0, << >>)

\* no call of a packet builder or of a response parser was made
CodecStatic ==
    /\ q_mode = "none"
    /\ q_cmd = 0
    /\ q_params = << >>
    /\ q_buffer = << >>
    /\ pkt_c = NoPacket
    /\ pkt_k = NoPacket
    /\ pkt_s = NoPacket
    /\ res_c = NoParseResult
    /\ res_k = NoParseResult
    /\ res_s = NoParseResult

\* the manager after construction: not initialized, mutex free, no call
ManagerStatic ==
    /\ initialized_ = FALSE
    /\ mutex_ = 0
    /\ mgr_stack = [t \in {1, 2} |-> << >>]
    /\ mgr_ret = [t \in {1, 2} |-> "none"]

\* result of the last operation on the template library
LibOp(op, id, fresh) == [op |-> op, id |-> id, fresh |-> fresh]

\* no operation on the template library was made
LibraryStatic ==
    /\ lib_slots = {}
    /\ lib_last = LibOp("none", -1, FALSE)

\* static initialiser of app.c, before app_start
AppStatic ==
    /\ app_state = "INIT"
    /\ evt_loop = << >>

\* the failed captures among the failures a retry counter holds: a counted
\* failure of readImage() in a WaitFinger state adds one, and a counter
\* that is set to 0 holds none
CapturesIn(state, retry, retryNext, n) ==
    IF retryNext = 0 THEN 0
    ELSE IF state \in {"WaitFinger1", "WaitFinger2", "WaitFinger"}
            /\ retryNext = retry + 1
         THEN n + 1
    ELSE n

CountCaptureFailures ==
    captureFails' =
        [enroll |-> CapturesIn(m_enrollState, m_enrollRetryCount,
                               m_enrollRetryCount', captureFails.enroll),
         match  |-> CapturesIn(m_matchState, m_matchRetryCount,
                               m_matchRetryCount', captureFails.match)]

EngineStart ==
    /\ m_initialized = FALSE
    /\ m_enrollState = "Idle"
    /\ m_enrollTargetId = -1
    /\ m_enrollStep = 0
    /\ m_enrollRetryCount = 0
    /\ m_matchState = "Idle"
    /\ m_matchRetryCount = 0
    /\ lastOp = "constructor"
    /\ lastRet = "void"
    /\ events = << >>
    /\ sent = << >>
    /\ rx = << >>
    /\ sessComplete = << >>
    /\ sessFailed = 0
    /\ sessStore = 0
    /\ scriptPos = -1
    /\ sessPhase = 0
    /\ sessRemoved = 0
    /\ captureFails = [enroll |-> 0, match |-> 0]

\* init(config): the UART comes up (or not); the handshake result is ignored
EngineInit ==
    /\ \E uartOk \in BOOLEAN :
         IF m_initialized
         THEN /\ lastRet' = ESP_OK
              /\ sent' = << >>
              /\ rx' = << >>
              /\ UNCHANGED m_initialized
         ELSE IF ~uartOk
         THEN /\ lastRet' = ESP_FAIL
              /\ sent' = << >>
              /\ rx' = << >>
              /\ UNCHANGED m_initialized
         ELSE /\ m_initialized' = TRUE
              /\ lastRet' = ESP_OK
              /\ sent' = << [cmd |-> "Handshake", params |-> << >>] >>
              /\ \E o \in Outcomes : rx' = << o >>
    /\ lastOp' = "init"
    /\ UNCHANGED outsideEngine
    /\ events' = << >>
    /\ UNCHANGED <<m_enrollState, m_enrollTargetId, m_enrollStep,
                   m_enrollRetryCount, m_matchState, m_matchRetryCount,
                   sessComplete, sessFailed, sessStore, scriptPos,
                   sessPhase, sessRemoved>>
    /\ CountCaptureFailures

\* cancelEnroll(): the enrollment fields after the call
cancelEnroll ==
    IF m_enrollState # "Idle" THEN resetEnrollState ELSE EnrollFields

\* cancelMatch(): the match fields after the call
cancelMatch ==
    IF m_matchState # "Idle" THEN resetMatchState ELSE MatchFields

SetEnroll(f) ==
    /\ m_enrollState' = f.state
    /\ m_enrollTargetId' = f.target
    /\ m_enrollStep' = f.step
    /\ m_enrollRetryCount' = f.retry

SetMatch(f) ==
    /\ m_matchState' = f.state
    /\ m_matchRetryCount' = f.retry

Deinit ==
    /\ IF m_initialized
       THEN /\ SetEnroll(cancelEnroll)
            /\ SetMatch(cancelMatch)
            /\ m_initialized' = FALSE
       ELSE UNCHANGED engineVars
    /\ lastOp' = "deinit"
    /\ UNCHANGED outsideEngine
    /\ lastRet' = "void"
    /\ events' = << >>
    /\ sent' = << >>
    /\ rx' = << >>
    /\ UNCHANGED <<sessComplete, sessFailed, sessStore, scriptPos,
                   sessPhase, sessRemoved>>
    /\ CountCaptureFailures

StartEnroll ==
    \E targetId \in TargetIds :
      LET ret == startEnrollRet(targetId) IN
      /\ IF ret = ESP_OK
         THEN /\ SetEnroll([state |-> "WaitFinger1", target |-> targetId,
                            step |-> 0, retry |-> 0])
              /\ events' = << Ev("EnrollStart",
                                 [EventData EXCEPT !.id = targetId,
                                     !.totalSteps = ENROLL_TOTAL_STEPS]) >>
              /\ sessComplete' = << >>
              /\ sessFailed' = 0
              /\ sessStore' = 0
              /\ scriptPos' = IF targetId = 5 THEN 0 ELSE -1
              /\ sessPhase' = 0
              /\ sessRemoved' = 0
         ELSE /\ UNCHANGED <<m_enrollState, m_enrollTargetId, m_enrollStep,
                             m_enrollRetryCount>>
              /\ events' = << >>
              /\ UNCHANGED <<sessComplete, sessFailed, sessStore, scriptPos,
                   sessPhase, sessRemoved>>
      /\ lastOp' = "startEnroll"
      /\ UNCHANGED outsideEngine
      /\ lastRet' = ret
      /\ sent' = << >>
      /\ rx' = << >>
      /\ UNCHANGED <<m_initialized, m_matchState, m_matchRetryCount>>
      /\ CountCaptureFailures

CancelEnroll ==
    /\ SetEnroll(cancelEnroll)
    /\ lastOp' = "cancelEnroll"
    /\ UNCHANGED outsideEngine
    /\ lastRet' = "void"
    /\ events' = << >>
    /\ sent' = << >>
    /\ rx' = << >>
    /\ UNCHANGED <<m_initialized, m_matchState, m_matchRetryCount,
                   sessComplete, sessFailed, sessStore, scriptPos,
                   sessPhase, sessRemoved>>
    /\ CountCaptureFailures

StartMatch ==
    LET ret == startMatchRet IN
    /\ IF ret = ESP_OK
       THEN /\ SetMatch([state |-> "WaitFinger", retry |-> 0])
            /\ events' = << Ev("MatchStart", EventData) >>
       ELSE /\ UNCHANGED <<m_matchState, m_matchRetryCount>>
            /\ events' = << >>
    /\ lastOp' = "startMatch"
    /\ UNCHANGED outsideEngine
    /\ lastRet' = ret
    /\ sent' = << >>
    /\ rx' = << >>
    /\ UNCHANGED <<m_initialized, m_enrollState, m_enrollTargetId,
                   m_enrollStep, m_enrollRetryCount,
                   sessComplete, sessFailed, sessStore, scriptPos,
                   sessPhase, sessRemoved>>
    /\ CountCaptureFailures

CancelMatch ==
    /\ SetMatch(cancelMatch)
    /\ lastOp' = "cancelMatch"
    /\ UNCHANGED outsideEngine
    /\ lastRet' = "void"
    /\ events' = << >>
    /\ sent' = << >>
    /\ rx' = << >>
    /\ UNCHANGED <<m_initialized, m_enrollState, m_enrollTargetId,
                   m_enrollStep, m_enrollRetryCount,
                   sessComplete, sessFailed, sessStore, scriptPos,
                   sessPhase, sessRemoved>>
    /\ CountCaptureFailures

\* process(): processEnroll() then processMatch(); each consumes the outcome
\* of the one command it sends
Process ==
    \E oe \in OutcomesFor(m_enrollState), om \in OutcomesFor(m_matchState) :
      LET e == processEnroll(oe)
          m == processMatch(om)
      IN
      /\ SetEnroll(e.f)
      /\ SetMatch(m.f)
      /\ events' = e.ev \o m.ev
      /\ sent' = e.tx \o m.tx
      /\ rx' = Rx(e.tx, oe) \o Rx(m.tx, om)
      /\ sessComplete' = sessComplete \o CompleteIds(e.ev)
      /\ sessFailed' = sessFailed + CountType(e.ev, "EnrollFailed")
      /\ sessStore' = sessStore + CountCmd(e.tx, "StoreChar")
      /\ scriptPos' = ScriptNext(oe)
      /\ sessPhase' = PhaseNext(e.tx, oe)
      /\ sessRemoved' = sessRemoved + CountType(e.ev, "FingerRemoved")
      /\ lastOp' = "process"
      /\ UNCHANGED outsideEngine
      /\ lastRet' = "void"
      /\ UNCHANGED m_initialized
      /\ CountCaptureFailures

(***************************************************************************)
(* Finger module (main/finger/finger.c): the worker task finger_task, its  *)
(* command queue, and the API called from other tasks.                     *)
(*                                                                         *)
(* A driver call (as608_read_image, as608_gen_char, ...) is one blocking   *)
(* request/response cycle on the UART.  The task that makes the call is    *)
(* blocked in it from the step that issues the call to the step that takes *)
(* its outcome; wpc and cpc name the call each task is blocked in.         *)
(***************************************************************************)
CFG_AS608_LIBRARY_SIZE == 162

\* capacity of the command queue in the model (CFG_FINGER_QUEUE_SIZE is 8)
MaxQueue == 2

\* poll ceiling of wait_finger_remove in the model (50 in finger.c:131)
MaxRemovePolls == 2

\* slot ids offered to finger_start_enroll and finger_delete
FingerIds == {-1, 0, 1, CFG_AS608_LIBRARY_SIZE}

\* template counts the sensor reports
Counts == {0, 1, CFG_AS608_LIBRARY_SIZE}

\* outcome of a driver call: return value, matched id, score, count
DriverOutcome(ret, id, score, count) ==
    [ret |-> ret, id |-> id, score |-> score, count |-> count]

DriverRets == {ESP_OK, ESP_ERR_NOT_FOUND, ESP_FAIL, ESP_ERR_TIMEOUT}

DriverOutcomes(call) ==
    CASE call = "as608_search" ->
           { DriverOutcome(ESP_OK, 1, 60, 0), DriverOutcome(ESP_OK, -1, 0, 0),
             DriverOutcome(ESP_ERR_NOT_FOUND, -1, 0, 0),
             DriverOutcome(ESP_FAIL, -1, 0, 0),
             DriverOutcome(ESP_ERR_TIMEOUT, -1, 0, 0) }
      [] call = "as608_get_template_count" ->
           { DriverOutcome(ESP_OK, -1, 0, c) : c \in Counts }
           \cup { DriverOutcome(ESP_ERR_TIMEOUT, -1, 0, 0) }
      [] call = "as608_read_image" ->
           { DriverOutcome(r, -1, 0, 0) : r \in DriverRets }
      [] OTHER ->
           { DriverOutcome(r, -1, 0, 0) : r \in DriverRets \ {ESP_ERR_NOT_FOUND} }

\* the driver call a worker position is blocked in
WorkerCall(pc) ==
    CASE pc \in {"search.img", "step1.img", "step2.img", "wfr"} -> "as608_read_image"
      [] pc \in {"search.gen", "step1.gen", "step2.gen"} -> "as608_gen_char"
      [] pc = "search.search" -> "as608_search"
      [] pc = "store.reg" -> "as608_reg_model"
      [] pc = "store.store" -> "as608_store"
      [] pc = "store.count" -> "as608_get_template_count"
      [] OTHER -> "none"

\* the driver call a position of the calling task is blocked in
CallerCall(pc) ==
    CASE pc = "delete.delete" -> "as608_delete"
      [] pc = "delete.count" -> "as608_get_template_count"
      [] pc = "delete_all.empty" -> "as608_empty"
      [] OTHER -> "none"

\* post_event(id, NULL, 0): no data
NULL == [len |-> 0]

FEv(id, data) == [id |-> id, data |-> data]

Msg(cmd, param) == [cmd |-> cmd, param |-> param]

\* the worker's view of the module state
Worker ==
    [state |-> s_state, id |-> s_enroll_id, on |-> s_finger_on,
     count |-> s_template_count, pc |-> wpc, cnt |-> wcnt, cont |-> wcont,
     ev |-> << >>]

Post(w, e) == [w EXCEPT !.ev = Append(@, e)]

\* back at the top of the while (1) loop of finger_task
Top(w) == [w EXCEPT !.pc = "top", !.cnt = 0, !.cont = "none"]

find_free_slot(count) ==
    IF count >= CFG_AS608_LIBRARY_SIZE THEN -1 ELSE count

process_cmd(w, msg) ==
    CASE msg.cmd = "FINGER_CMD_IDLE" ->
           [w EXCEPT !.state = "IDLE", !.id = -1]
      [] msg.cmd = "FINGER_CMD_SEARCH" ->
           [w EXCEPT !.state = "SEARCHING"]
      [] msg.cmd = "FINGER_CMD_ENROLL" ->
           IF msg.param < 0
           THEN LET slot == find_free_slot(w.count) IN
                IF slot < 0
                THEN Post([w EXCEPT !.id = slot, !.state = "IDLE"],
                          FEv("FINGER_EVT_ENROLL_FAIL", NULL))
                ELSE Post([w EXCEPT !.id = slot, !.state = "ENROLL_STEP1"],
                          FEv("FINGER_EVT_ENROLL_START",
                              [finger_id |-> slot, step |-> 1]))
           ELSE IF msg.param >= CFG_AS608_LIBRARY_SIZE
                THEN Post([w EXCEPT !.state = "IDLE"],
                          FEv("FINGER_EVT_ENROLL_FAIL", NULL))
                ELSE Post([w EXCEPT !.id = msg.param,
                                    !.state = "ENROLL_STEP1"],
                          FEv("FINGER_EVT_ENROLL_START",
                              [finger_id |-> msg.param, step |-> 1]))
      [] msg.cmd = "FINGER_CMD_CANCEL" ->
           LET w1 == IF w.state # "IDLE"
                     THEN Post(w, FEv("FINGER_EVT_ENROLL_CANCEL", NULL))
                     ELSE w
           IN [w1 EXCEPT !.state = "IDLE", !.id = -1]

\* wait_finger_remove(): the first as608_read_image is issued
wait_finger_remove(w, from) ==
    [w EXCEPT !.pc = "wfr", !.cnt = 0, !.cont = from]

\* wait_finger_remove(): outcome o of as608_read_image; when the loop ends the
\* caller goes on after the call
wait_finger_remove_poll(w, o) ==
    IF o.ret = ESP_OK /\ w.cnt < MaxRemovePolls
    THEN [w EXCEPT !.cnt = @ + 1]
    ELSE LET w1 == [w EXCEPT !.on = FALSE] IN
         CASE w.cont = "step1.ok" ->
                Top([Post(w1, FEv("FINGER_EVT_REMOVED", NULL))
                       EXCEPT !.state = "ENROLL_STEP2"])
           [] w.cont = "step2.gen_fail" ->
                Top([w1 EXCEPT !.state = "ENROLL_STEP1"])
           [] w.cont = "store.cleanup" ->
                Top([w1 EXCEPT !.state = "SEARCHING", !.id = -1,
                               !.on = FALSE])
           [] OTHER -> Top(w1)

\* do_search(): outcome o of the call the worker is blocked in
\* (do_search_AlwaysPostsRemoved: the same, posting FINGER_EVT_REMOVED for
\* every capture without a finger, whether or not one had been detected)
do_search_AlwaysPostsRemoved(w, o) ==
    CASE w.pc = "search.img" ->
           IF o.ret = ESP_ERR_NOT_FOUND
           THEN Top(Post([w EXCEPT !.on = FALSE],
                         FEv("FINGER_EVT_REMOVED", NULL)))
           ELSE IF o.ret # ESP_OK THEN Top(w)
           ELSE LET w1 == IF ~w.on
                          THEN Post([w EXCEPT !.on = TRUE],
                                    FEv("FINGER_EVT_DETECTED", NULL))
                          ELSE w
                IN [w1 EXCEPT !.pc = "search.gen"]
      [] w.pc = "search.gen" ->
           IF o.ret # ESP_OK
           THEN wait_finger_remove(
                    Post(w, FEv("FINGER_EVT_IMAGE_FAIL", NULL)), "search")
           ELSE [Post(w, FEv("FINGER_EVT_IMAGE_OK", NULL))
                   EXCEPT !.pc = "search.search"]
      [] w.pc = "search.search" ->
           IF o.ret = ESP_OK /\ o.id >= 0
           THEN wait_finger_remove(
                    Post(w, FEv("FINGER_EVT_MATCH",
                                [finger_id |-> o.id, score |-> o.score])),
                    "search")
           ELSE wait_finger_remove(
                    Post(w, FEv("FINGER_EVT_NO_MATCH", NULL)), "search")

do_search(w, o) ==
    CASE w.pc = "search.img" ->
           IF o.ret = ESP_ERR_NOT_FOUND
           THEN IF w.on
                THEN Top(Post([w EXCEPT !.on = FALSE],
                              FEv("FINGER_EVT_REMOVED", NULL)))
                ELSE Top(w)
           ELSE IF o.ret # ESP_OK THEN Top(w)
           ELSE LET w1 == IF ~w.on
                          THEN Post([w EXCEPT !.on = TRUE],
                                    FEv("FINGER_EVT_DETECTED", NULL))
                          ELSE w
                IN [w1 EXCEPT !.pc = "search.gen"]
      [] w.pc = "search.gen" ->
           IF o.ret # ESP_OK
           THEN wait_finger_remove(
                    Post(w, FEv("FINGER_EVT_IMAGE_FAIL", NULL)), "search")
           ELSE [Post(w, FEv("FINGER_EVT_IMAGE_OK", NULL))
                   EXCEPT !.pc = "search.search"]
      [] w.pc = "search.search" ->
           IF o.ret = ESP_OK /\ o.id >= 0
           THEN wait_finger_remove(
                    Post(w, FEv("FINGER_EVT_MATCH",
                                [finger_id |-> o.id, score |-> o.score])),
                    "search")
           ELSE wait_finger_remove(
                    Post(w, FEv("FINGER_EVT_NO_MATCH", NULL)), "search")

do_enroll_step1(w, o) ==
    CASE w.pc = "step1.img" ->
           IF o.ret = ESP_ERR_NOT_FOUND
           THEN IF w.on
                THEN Top(Post([w EXCEPT !.on = FALSE],
                              FEv("FINGER_EVT_REMOVED", NULL)))
                ELSE Top(w)
           ELSE IF o.ret # ESP_OK THEN Top(w)
           ELSE LET w1 == IF ~w.on
                          THEN Post([w EXCEPT !.on = TRUE],
                                    FEv("FINGER_EVT_DETECTED", NULL))
                          ELSE w
                IN [w1 EXCEPT !.pc = "step1.gen"]
      [] w.pc = "step1.gen" ->
           IF o.ret # ESP_OK
           THEN wait_finger_remove(
                    Post(w, FEv("FINGER_EVT_IMAGE_FAIL", NULL)),
                    "step1.gen_fail")
           ELSE wait_finger_remove(
                    Post(w, FEv("FINGER_EVT_ENROLL_STEP1",
                                [finger_id |-> w.id, step |-> 1])),
                    "step1.ok")

do_enroll_step2(w, o) ==
    CASE w.pc = "step2.img" ->
           IF o.ret = ESP_ERR_NOT_FOUND THEN Top(w)
           ELSE IF o.ret # ESP_OK THEN Top(w)
           ELSE [Post([w EXCEPT !.on = TRUE],
                      FEv("FINGER_EVT_DETECTED", NULL))
                   EXCEPT !.pc = "step2.gen"]
      [] w.pc = "step2.gen" ->
           IF o.ret # ESP_OK
           THEN wait_finger_remove(
                    Post(w, FEv("FINGER_EVT_IMAGE_FAIL", NULL)),
                    "step2.gen_fail")
           ELSE Top([Post(w, FEv("FINGER_EVT_ENROLL_STEP2",
                                 [finger_id |-> w.id, step |-> 2]))
                       EXCEPT !.state = "ENROLL_STORE"])

\* do_enroll_store(): entry, up to the first driver call
do_enroll_store_begin(w) ==
    IF w.id < 0 \/ w.id >= CFG_AS608_LIBRARY_SIZE
    THEN wait_finger_remove(
             Post(w, FEv("FINGER_EVT_ENROLL_FAIL", NULL)), "store.cleanup")
    ELSE [w EXCEPT !.pc = "store.reg"]

do_enroll_store(w, o) ==
    CASE w.pc = "store.reg" ->
           IF o.ret # ESP_OK
           THEN wait_finger_remove(
                    Post(w, FEv("FINGER_EVT_ENROLL_FAIL", NULL)),
                    "store.cleanup")
           ELSE [w EXCEPT !.pc = "store.store"]
      [] w.pc = "store.store" ->
           IF o.ret # ESP_OK
           THEN wait_finger_remove(
                    Post(w, FEv("FINGER_EVT_ENROLL_FAIL", NULL)),
                    "store.cleanup")
           ELSE [Post(w, FEv("FINGER_EVT_ENROLL_OK",
                             [finger_id |-> w.id, step |-> 0]))
                   EXCEPT !.pc = "store.count"]
      [] w.pc = "store.count" ->
           wait_finger_remove([w EXCEPT !.count = o.count], "store.cleanup")

\* finger_task: switch (s_state), up to the first driver call
finger_task_switch(w) ==
    CASE w.state = "IDLE" -> Top(w)
      [] w.state = "SEARCHING" -> [w EXCEPT !.pc = "search.img"]
      [] w.state = "ENROLL_STEP1" -> [w EXCEPT !.pc = "step1.img"]
      [] w.state = "ENROLL_STEP2" -> [w EXCEPT !.pc = "step2.img"]
      [] w.state = "ENROLL_STORE" -> do_enroll_store_begin(w)

\* finger_task: the call the worker is blocked in returns o
finger_task_resume(w, o) ==
    CASE w.pc = "wfr" -> wait_finger_remove_poll(w, o)
      [] w.pc \in {"search.img", "search.gen", "search.search"} -> do_search(w, o)
      [] w.pc \in {"step1.img", "step1.gen"} -> do_enroll_step1(w, o)
      [] w.pc \in {"step2.img", "step2.gen"} -> do_enroll_step2(w, o)
      [] w.pc \in {"store.reg", "store.store", "store.count"} -> do_enroll_store(w, o)

SetWorker(w) ==
    /\ s_state' = w.state
    /\ s_enroll_id' = w.id
    /\ s_finger_on' = w.on
    /\ s_template_count' = w.count
    /\ wpc' = w.pc
    /\ wcnt' = w.cnt
    /\ wcont' = w.cont
    /\ fposted' = w.ev

\* static initialisers of finger.c, before finger_init
FingerStatic ==
    /\ s_state = "IDLE"
    /\ s_enroll_id = -1
    /\ s_finger_on = FALSE
    /\ s_template_count = 0
    /\ s_queue = << >>
    /\ wpc = "top"
    /\ wcnt = 0
    /\ wcont = "none"
    /\ cpc = "idle"
    /\ fposted = << >>

\* after finger_init: the count was read, the queue is empty, finger_task
\* has set s_state = STATE_SEARCHING and is at the top of its loop
FingerStart ==
    /\ s_state = "SEARCHING"
    /\ s_enroll_id = -1
    /\ s_finger_on = FALSE
    /\ s_template_count \in Counts
    /\ s_queue = << >>
    /\ wpc = "top"
    /\ wcnt = 0
    /\ wcont = "none"
    /\ cpc = "idle"
    /\ fposted = << >>

\* finger_task, one iteration of while (1) up to its first driver call:
\* xQueueReceive(s_queue, &msg, 0), process_cmd, switch (s_state)
finger_task_iteration ==
    /\ wpc = "top"
    /\ IF s_queue # << >>
       THEN /\ SetWorker(finger_task_switch(process_cmd(Worker, Head(s_queue))))
            /\ s_queue' = Tail(s_queue)
       ELSE /\ SetWorker(finger_task_switch(Worker))
            /\ UNCHANGED s_queue
    /\ UNCHANGED cpc

WorkerPoll ==
    /\ finger_task_iteration
    /\ UNCHANGED outsideFinger

\* finger_task: the driver call it is blocked in returns
finger_task_call_returns ==
    /\ wpc # "top"
    /\ \E o \in DriverOutcomes(WorkerCall(wpc)) :
         SetWorker(finger_task_resume(Worker, o))
    /\ UNCHANGED <<s_queue, cpc>>

WorkerResume ==
    /\ finger_task_call_returns
    /\ UNCHANGED outsideFinger

\* send_cmd(cmd, param): xQueueSend with a timeout; when the queue stays
\* full the message is dropped and ESP_ERR_TIMEOUT returned
xQueueSend(cmd, param) ==
    /\ IF Len(s_queue) < MaxQueue
       THEN s_queue' = Append(s_queue, Msg(cmd, param))
       ELSE UNCHANGED s_queue
    /\ fposted' = << >>
    /\ UNCHANGED <<s_state, s_enroll_id, s_finger_on, s_template_count,
                   wpc, wcnt, wcont, cpc>>

\* send_cmd(cmd, param) from a calling task that is not inside a driver call
send_cmd(cmd, param) ==
    /\ cpc = "idle"
    /\ xQueueSend(cmd, param)
    /\ UNCHANGED outsideFinger

finger_start_search == send_cmd("FINGER_CMD_SEARCH", 0)

finger_start_enroll == \E id \in FingerIds : send_cmd("FINGER_CMD_ENROLL", id)

finger_cancel == send_cmd("FINGER_CMD_CANCEL", 0)

\* as608_delete(id) -> as608_delete_range(id, 1): IS_VALID_PAGE((uint16_t)id)
IS_VALID_PAGE(id) == id >= 0 /\ id < CFG_AS608_LIBRARY_SIZE

\* finger_delete(finger_id): the calling task itself enters as608_delete; an
\* id outside the library is refused by the driver before any I/O
finger_delete ==
    /\ cpc = "idle"
    /\ \E id \in FingerIds :
         IF IS_VALID_PAGE(id)
         THEN /\ cpc' = "delete.delete"
              /\ fposted' = << >>
         ELSE /\ cpc' = "idle"
              /\ fposted' = << FEv("FINGER_EVT_DELETE_FAIL", NULL) >>
    /\ UNCHANGED <<s_state, s_enroll_id, s_finger_on, s_template_count,
                   s_queue, wpc, wcnt, wcont>>
    /\ UNCHANGED outsideFinger

\* finger_delete_all(): the calling task itself enters as608_empty
finger_delete_all ==
    /\ cpc = "idle"
    /\ cpc' = "delete_all.empty"
    /\ fposted' = << >>
    /\ UNCHANGED <<s_state, s_enroll_id, s_finger_on, s_template_count,
                   s_queue, wpc, wcnt, wcont>>
    /\ UNCHANGED outsideFinger

\* finger_delete / finger_delete_all: the driver call of the calling task
\* returns
CallerResume ==
    /\ cpc # "idle"
    /\ \E o \in DriverOutcomes(CallerCall(cpc)) :
         CASE cpc = "delete.delete" ->
                IF o.ret = ESP_OK
                THEN /\ cpc' = "delete.count"
                     /\ fposted' = << >>
                     /\ UNCHANGED s_template_count
                ELSE /\ cpc' = "idle"
                     /\ fposted' = << FEv("FINGER_EVT_DELETE_FAIL", NULL) >>
                     /\ UNCHANGED s_template_count
           [] cpc = "delete.count" ->
                /\ cpc' = "idle"
                /\ s_template_count' = o.count
                /\ fposted' = << FEv("FINGER_EVT_DELETE_OK", NULL) >>
           [] cpc = "delete_all.empty" ->
                /\ cpc' = "idle"
                /\ IF o.ret = ESP_OK
                   THEN /\ s_template_count' = 0
                        /\ fposted' = << FEv("FINGER_EVT_DELETE_ALL_OK", NULL) >>
                   ELSE /\ UNCHANGED s_template_count
                        /\ fposted' = << FEv("FINGER_EVT_DELETE_FAIL", NULL) >>
    /\ UNCHANGED <<s_state, s_enroll_id, s_finger_on, s_queue,
                   wpc, wcnt, wcont>>
    /\ UNCHANGED outsideFinger

InitFinger ==
    EngineStart /\ FingerStart /\ WireStatic /\ DriverStatic
    /\ CodecStatic /\ ManagerStatic /\ LibraryStatic /\ AppStatic

NextFinger ==
    \/ WorkerPoll
    \/ WorkerResume
    \/ finger_start_search
    \/ finger_start_enroll
    \/ finger_cancel
    \/ finger_delete
    \/ finger_delete_all
    \/ CallerResume

SpecFinger == InitFinger /\ [][NextFinger]_vars

\* the tasks that are inside a sensor command
CommandsInProgress ==
    {t \in {"finger_task", "caller"} :
        \/ t = "finger_task" /\ WorkerCall(wpc) # "none"
        \/ t = "caller" /\ CallerCall(cpc) # "none"}

\* C6: every sensor command is executed by the finger worker task, so no two
\* sensor commands are in progress at the same time, also when finger_delete
\* or finger_delete_all is called from another task while the worker is
\* scanning or enrolling.
C6_OneCommandAtATime == Cardinality(CommandsInProgress) <= 1

(***************************************************************************)
(* Transport: response frames on the UART, as608_send_cmd of               *)
(* components/as608/as608.c, and AS608Uart::receive followed by            *)
(* AS608Protocol::parseResponse of components/khoa_as608.                  *)
(***************************************************************************)
AS608_HEADER_HIGH   == 239
AS608_HEADER_LOW    == 1
AS608_PID_ACK       == 7
AS608_MAX_DATA_SIZE == 256
MIN_RESPONSE_SIZE   == 12
BUFFER_SIZE         == 256

Min(a, b) == IF a < b THEN a ELSE b

\* conversion of an int to size_t: a negative value wraps to just below the
\* top of the range (2^32 on the target; 2^31 - 1, the largest integer of
\* the model checker, stands for it, far above every buffer size)
size_t(x) == IF x < 0 THEN 2147483647 + x ELSE x

SetMin(S) == CHOOSE x \in S : \A y \in S : x <= y

RECURSIVE Sum(_)
Sum(bytes) == IF bytes = << >> THEN 0 ELSE Head(bytes) + Sum(Tail(bytes))

\* buf[i] of the C code for the 1-based sequence buf
At(buf, i) == buf[i + 1]

\* buf[from .. to) of the C code
Slice(buf, from, to) == SubSeq(buf, from + 1, to)

\* the bytes of buf that data = &buf[10] with data_len bytes covers
PayloadAt(buf, data_len) ==
    Slice(buf, 10, IF data_len > Len(buf) - 10 THEN Len(buf)
                   ELSE 10 + data_len)

\* the response frame the sensor sends for a confirmation code and a payload:
\* header, address, PID, length, confirmation, payload, checksum
ResponseFrame(confirm, payload) ==
    LET length == 1 + Len(payload) + 2
        body   == << AS608_PID_ACK, length \div 256, length % 256, confirm >>
                  \o payload
        sum    == Sum(body) % 65536
    IN << AS608_HEADER_HIGH, AS608_HEADER_LOW, 255, 255, 255, 255 >>
       \o body \o << sum \div 256, sum % 256 >>

\* responses of the sensor: GetImage/GenChar/RegModel/Store (no payload),
\* TemplateCount (2 bytes), Search (4 bytes: slot id, score)
Frames ==
    { ResponseFrame(c, << >>) : c \in {Ok, ErrNoFinger, ErrCombineFail} }
    \cup { ResponseFrame(Ok, << 0, 3 >>) }
    \cup { ResponseFrame(c, p) : c \in {Ok, ErrNotFound},
                                p \in { << 0, 5, 0, 60 >>, << 0, 10, 0, 60 >> } }

\* bytes of line noise in front of a frame, and values a corrupted byte takes
GarbageBytes  == {0, 170, 239}
CorruptValues == {0, 1, 3, 127, 239, 255}

Garbage(k, g) == [i \in 1..k |-> g]

Corrupted(frame, at, v) == [frame EXCEPT ![at + 1] = v]

\* uart_read_bytes(port, buf, n, timeout) on a line that delivers every byte
\* of the exchange before the timeout: the bytes read, and what is left
Take(line, n) == SubSeq(line, 1, Min(n, Len(line)))
Drop(line, n) == SubSeq(line, Min(n, Len(line)) + 1, Len(line))

\* offsets i with rx_buf[i] == 0xEF && rx_buf[i + 1] == 0x01, i < bytes_read - 1
HeaderOffsets(buf) ==
    {i \in 0..(Len(buf) - 2) :
        At(buf, i) = AS608_HEADER_HIGH /\ At(buf, i + 1) = AS608_HEADER_LOW}

\* as608_send_cmd after the write: read the 9 byte prefix
send_cmd_prefix(line) ==
    LET first == Take(line, 9)
        rest1 == Drop(line, 9)
    IN
    IF Len(first) < 9
    THEN [ret |-> ESP_ERR_TIMEOUT, rx |-> << >>, rest |-> << >>]
    ELSE
    LET found1 == HeaderOffsets(first) # {}
        more   == IF found1 THEN << >> ELSE Take(rest1, 16)
        rest2  == IF found1 THEN rest1 ELSE Drop(rest1, 16)
        got    == first \o more
    IN
    IF HeaderOffsets(got) = {}
    THEN [ret |-> ESP_ERR_INVALID_RESPONSE, rx |-> << >>, rest |-> << >>]
    ELSE
    LET header_offset == SetMin(HeaderOffsets(got))
        remaining     == Len(got) - header_offset
        moved         == Slice(got, header_offset, Len(got))
        need_more     == 9 - remaining
        reads         == header_offset > 0 /\ need_more > 0
        fill          == IF reads THEN Take(rest2, need_more) ELSE << >>
        rest3         == IF reads THEN Drop(rest2, need_more) ELSE rest2
    IN
    IF reads /\ Len(fill) < need_more
    THEN [ret |-> ESP_ERR_TIMEOUT, rx |-> << >>, rest |-> << >>]
    ELSE [ret |-> ESP_OK, rx |-> Take(moved \o fill, 9), rest |-> rest3]

\* as608_send_cmd(cmd, ..., resp_data, resp_len, timeout) for the bytes the
\* line delivers: return value, *resp_len and resp_data[0 .. *resp_len)
as608_send_cmd(line) ==
    LET p == send_cmd_prefix(line) IN
    IF p.ret # ESP_OK THEN Result(p.ret, 0, << >>)
    ELSE
    IF At(p.rx, 0) # AS608_HEADER_HIGH \/ At(p.rx, 1) # AS608_HEADER_LOW
    THEN Result(ESP_ERR_INVALID_RESPONSE, 0, << >>)
    ELSE IF At(p.rx, 6) # AS608_PID_ACK
    THEN Result(ESP_ERR_INVALID_RESPONSE, 0, << >>)
    ELSE
    LET pkt_length == At(p.rx, 7) * 256 + At(p.rx, 8) IN
    IF pkt_length > AS608_MAX_DATA_SIZE
    THEN Result(ESP_ERR_INVALID_RESPONSE, 0, << >>)
    ELSE
    LET body   == Take(p.rest, pkt_length)
        rx_buf == p.rx \o body
        rx_len == 9 + Len(body)
    IN
    IF Len(body) # pkt_length
    THEN Result(ESP_ERR_TIMEOUT, 0, << >>)
    ELSE
    LET calc_checksum == Sum(Slice(rx_buf, 6, rx_len - 2)) % 65536
        recv_checksum == At(rx_buf, rx_len - 2) * 256 + At(rx_buf, rx_len - 1)
    IN
    IF calc_checksum # recv_checksum
    THEN Result(ESP_ERR_INVALID_CRC, 0, << >>)
    ELSE LET data_len == size_t(pkt_length - 2) IN
         Result(ESP_OK, data_len, Slice(rx_buf, 9, Min(9 + data_len, rx_len)))

\* AS608Protocol::parseResponse(buffer, len, response)
parseResponse(buffer) ==
    LET len == Len(buffer) IN
    IF len < MIN_RESPONSE_SIZE
    THEN ParseResult(ESP_ERR_INVALID_SIZE, 0, 0, << >>)
    ELSE IF At(buffer, 0) # AS608_HEADER_HIGH \/ At(buffer, 1) # AS608_HEADER_LOW
    THEN ParseResult(ESP_ERR_INVALID_RESPONSE, 0, 0, << >>)
    ELSE IF At(buffer, 6) # AS608_PID_ACK
    THEN ParseResult(ESP_ERR_INVALID_RESPONSE, 0, 0, << >>)
    ELSE
    LET length == At(buffer, 7) * 256 + At(buffer, 8) IN
    IF 9 + length > len
    THEN ParseResult(ESP_ERR_INVALID_SIZE, 0, 0, << >>)
    ELSE
    LET checksum     == Sum(Slice(buffer, 6, 9 + length - 2)) % 65536
        recvChecksum == At(buffer, 9 + length - 2) * 256
                        + At(buffer, 9 + length - 1)
    IN
    IF checksum # recvChecksum
    THEN ParseResult(ESP_ERR_INVALID_CRC, 0, 0, << >>)
    ELSE LET dataLen == size_t(length - 3) IN
         ParseResult(ESP_OK, At(buffer, 9), dataLen,
                     PayloadAt(buffer, dataLen))

\* the command was written and the sensor answers with a frame; on the line
\* the frame is preceded by garbage, or one of its bytes is corrupted
WireStart ==
    /\ w_frame \in Frames
    /\ \/ /\ w_corrupt = -1
          /\ w_garbage \in 0..(Len(w_frame) - 1)
          /\ \E g \in GarbageBytes : w_stream = Garbage(w_garbage, g) \o w_frame
       \/ /\ w_garbage = 0
          /\ w_corrupt \in 0..(Len(w_frame) - 1)
          /\ \E v \in CorruptValues :
               /\ v # At(w_frame, w_corrupt)
               /\ w_stream = Corrupted(w_frame, w_corrupt, v)
    /\ sc_res = NoResult
    /\ sc_size = 8
    /\ k_wire = w_stream
    /\ k_buf = << >>
    /\ k_res = NoParseResult

\* as608_send_cmd from the end of the write to its return
SendCmdReceive ==
    /\ sc_res = NoResult
    /\ sc_res' = as608_send_cmd(w_stream)
    /\ UNCHANGED <<w_frame, w_garbage, w_corrupt, w_stream, sc_size,
                   k_wire, k_buf, k_res>>
    /\ UNCHANGED outsideWire

\* AS608Uart::receive, one pass of while (total_read < 12): uart_read_bytes
\* returns the n bytes that arrived within its 100 ms
ReceiveRead ==
    /\ k_res = NoParseResult
    /\ Len(k_buf) < 12
    /\ \E n \in 1..Min(Len(k_wire), BUFFER_SIZE - Len(k_buf)) :
         /\ k_buf' = k_buf \o Take(k_wire, n)
         /\ k_wire' = Drop(k_wire, n)
    /\ UNCHANGED <<w_frame, w_garbage, w_corrupt, w_stream, sc_size,
                   sc_res, k_res>>
    /\ UNCHANGED outsideWire

\* AS608Uart::receive: elapsed > timeout_ms before 12 bytes were read;
\* executeCommand returns the error
ReceiveTimeout ==
    /\ k_res = NoParseResult
    /\ Len(k_buf) < 12
    /\ k_res' = ParseResult(ESP_ERR_TIMEOUT, 0, 0, << >>)
    /\ UNCHANGED <<w_frame, w_garbage, w_corrupt, w_stream, sc_size,
                   sc_res, k_wire, k_buf>>
    /\ UNCHANGED outsideWire

\* AS608Uart::receive leaves its loop with total_read >= 12 and
\* executeCommand hands buffer[0 .. bytesRead) to parseResponse
ReceiveDone ==
    /\ k_res = NoParseResult
    /\ Len(k_buf) >= 12
    /\ k_res' = parseResponse(k_buf)
    /\ UNCHANGED <<w_frame, w_garbage, w_corrupt, w_stream, sc_size,
                   sc_res, k_wire, k_buf>>
    /\ UNCHANGED outsideWire

InitWire ==
    EngineStart /\ FingerStatic /\ WireStart /\ DriverStatic
    /\ CodecStatic /\ ManagerStatic /\ LibraryStatic /\ AppStatic

NextWire ==
    \/ SendCmdReceive
    \/ ReceiveRead
    \/ ReceiveTimeout
    \/ ReceiveDone

SpecWire == InitWire /\ [][NextWire]_vars

TransportErrorClass ==
    {ESP_ERR_TIMEOUT, ESP_ERR_INVALID_RESPONSE, ESP_ERR_INVALID_SIZE,
     ESP_ERR_INVALID_CRC}

\* C7: for a well-formed 16-byte response frame, corrupting any single byte
\* makes the command executor (as608_send_cmd, and AS608::executeCommand with
\* parseResponse) return a transport-class error, never success with a
\* confirmation code.
C7_CorruptedFrameIsRejected ==
    (Len(w_frame) = 16 /\ w_corrupt >= 0)
    => /\ sc_res # NoResult => sc_res.ret \in TransportErrorClass
       /\ k_res # NoParseResult => k_res.ret \in TransportErrorClass

\* C8: as608_send_cmd, for a valid response frame preceded by k garbage
\* bytes, 0 <= k < frame length, returns the same status, confirmation code
\* and payload as for k = 0.
C8_ResyncAfterGarbage ==
    (w_corrupt = -1 /\ sc_res # NoResult)
    => sc_res = as608_send_cmd(w_frame)

\* C9: a valid response frame (12 bytes or longer) that arrives split across
\* several UART reads before the deadline gives the same confirmation code
\* and payload as the frame arriving in one read.
C9_SplitFrameIsReassembled ==
    (w_corrupt = -1 /\ w_garbage = 0
     /\ k_res # NoParseResult /\ k_res.ret # ESP_ERR_TIMEOUT)
    => k_res = parseResponse(w_frame)

Init ==
    EngineStart /\ FingerStatic /\ WireStatic /\ DriverStatic
    /\ CodecStatic /\ ManagerStatic /\ LibraryStatic /\ AppStatic

Next ==
    \/ EngineInit
    \/ Deinit
    \/ StartEnroll
    \/ CancelEnroll
    \/ StartMatch
    \/ CancelMatch
    \/ Process

Spec == Init /\ [][Next]_vars

(***************************************************************************)
(* Properties of the engine                                                *)
(***************************************************************************)
EnrollActive == m_enrollState # "Idle"
MatchActive  == m_matchState # "Idle"

HasType(evs, type) == \E i \in 1..Len(evs) : evs[i].type = type

\* C1: after any sequence of init, deinit, startEnroll, startMatch,
\* cancelEnroll, cancelMatch and process calls the enrollment state machine
\* and the match state machine are never both non-Idle.
C1_NeverBothActive == ~(EnrollActive /\ MatchActive)

\* startMatch was called during an enrollment session and rejected
C1_Witness ==
    /\ lastOp = "startMatch"
    /\ lastRet = ESP_ERR_INVALID_STATE
    /\ EnrollActive

\* C2: startEnroll called while a match cycle is active returns
\* ESP_ERR_INVALID_STATE, fires no event, sends no command and leaves the
\* match state, the match retry counter, the enroll state and the enroll
\* target id unchanged.
C2_StartEnrollRejectedDuringMatch ==
    [][ (MatchActive /\ lastOp' = "startEnroll")
        => /\ lastRet' = ESP_ERR_INVALID_STATE
           /\ events' = << >>
           /\ sent' = << >>
           /\ UNCHANGED <<m_matchState, m_matchRetryCount,
                          m_enrollState, m_enrollTargetId>> ]_vars

\* startEnroll was called in the middle of a match cycle (after a capture
\* failure was counted) and the cycle is still there
C2_Witness ==
    /\ lastOp = "startEnroll"
    /\ lastRet = ESP_ERR_INVALID_STATE
    /\ MatchActive
    /\ m_matchRetryCount > 0

\* C3: after startEnroll(5), when the sensor answers capture Ok, GenChar(1)
\* Ok, capture NoFinger, capture Ok, GenChar(2) Ok, RegModel Ok, Store(5) Ok,
\* the process() calls fire exactly one EnrollComplete, carrying id 5, no
\* EnrollFailed, and the session ends in Idle (further process() calls fire
\* nothing more).
C3_HappyPath ==
    scriptPos = Len(HappyScript)
    => /\ sessComplete = << 5 >>
       /\ sessFailed = 0
       /\ sessStore = 1
       /\ m_enrollState = "Idle"
       /\ m_enrollTargetId = -1

\* the sensor has given the whole script and process() ran again afterwards
C3_Witness ==
    /\ scriptPos = Len(HappyScript)
    /\ lastOp = "process"
    /\ sent = << >>

\* C4: when RegModel is answered CombineFail (0x0A) in state CreateModel the
\* engine fires EnrollFailed, is Idle right after that call (RegModel is sent
\* once, not retried) and the session has sent no Store command.
IsCombineFail(o) == o.ret = ESP_OK /\ o.confirm = ErrCombineFail

C4_CombineFailAborts ==
    [][ (m_enrollState = "CreateModel" /\ lastOp' = "process"
         /\ Len(rx') > 0 /\ IsCombineFail(rx'[1]))
        => /\ CountType(events', "EnrollFailed") = 1
           /\ ~HasType(events', "EnrollComplete")
           /\ m_enrollState' = "Idle"
           /\ m_enrollTargetId' = -1
           /\ m_enrollRetryCount' = 0
           /\ CountCmd(sent', "RegModel") = 1
           /\ CountCmd(sent', "StoreChar") = 0
           /\ sessStore' = 0 ]_vars

\* a session was ended by CombineFail
C4_Witness ==
    /\ lastOp = "process"
    /\ Len(rx) > 0 /\ IsCombineFail(rx[1])
    /\ CountCmd(sent, "RegModel") = 1
    /\ HasType(events, "EnrollFailed")

\* C5: the EnrollFailed event fired for RegModel answered CombineFail carries
\* a reason that differs from the reason carried for a transport error
\* (timeout, malformed frame, checksum mismatch) and from the reason carried
\* for any other failure the sensor reports.
RegModelTransportErrors ==
    {o \in Outcomes : o.ret \in {ESP_ERR_TIMEOUT, ESP_ERR_INVALID_SIZE,
                                 ESP_ERR_INVALID_RESPONSE, ESP_ERR_INVALID_CRC}}

RegModelOtherFailures ==
    {o \in Outcomes : o.ret = ESP_OK /\ o.confirm \notin {Ok, ErrCombineFail}}

FailedReason(o) == processEnroll(o).ev[1].data.error

C5_MismatchReasonIsSpecific ==
    m_enrollState = "CreateModel"
    => \A o \in Outcomes, u \in RegModelTransportErrors \cup RegModelOtherFailures :
         IsCombineFail(o) => FailedReason(o) # FailedReason(u)

\* C10: cancelEnroll called in a non-Idle enrollment state resets the session
\* to Idle (target id -1, step 0, retry counter 0), sends no command and
\* fires an enrollment-cancelled event.
C10_CancelEnrollFiresCancelled ==
    [][ (EnrollActive /\ lastOp' = "cancelEnroll")
        => /\ m_enrollState' = "Idle"
           /\ m_enrollTargetId' = -1
           /\ m_enrollStep' = 0
           /\ m_enrollRetryCount' = 0
           /\ sent' = << >>
           /\ HasType(events', "EnrollCancelled") ]_vars

\* the match cycle is in state Search and process() got this answer to Search
SearchAnswered(codes) ==
    /\ m_matchState = "Search"
    /\ Len(rx') = 1
    /\ rx'[1].ret = ESP_OK
    /\ rx'[1].confirm \in codes

\* C11: process() fires MatchFailed only when the sensor answered the Search
\* command with confirmation NotFound or NoMatch, fires MatchOk only for a
\* Search answered Ok with a slot id and a score, and fires Error for a
\* Search that failed in transport or was answered with another confirmation.
C11_MatchResultOnlyFromSearch ==
    [][ lastOp' = "process"
        => /\ HasType(events', "MatchFailed")
              => SearchAnswered({ErrNotFound, ErrNoMatch})
           /\ HasType(events', "MatchOk")
              => (SearchAnswered({Ok}) /\ Len(rx'[1].data) >= 4)
           /\ (m_matchState = "Search"
               /\ ~SearchAnswered({Ok, ErrNotFound, ErrNoMatch}))
              => HasType(events', "Error") ]_vars

\* C12: the process() call that fires the result event of a match cycle
\* (MatchOk or MatchFailed) does not return the cycle to Idle; the cycle
\* stays active until a capture has returned NoFinger.
C12_MatchWaitsForRemoval ==
    [][ (lastOp' = "process"
         /\ (HasType(events', "MatchOk") \/ HasType(events', "MatchFailed")))
        => m_matchState' # "Idle" ]_vars

\* C13: in every non-Idle enrollment state a transport failure of the state's
\* command (timeout, malformed frame, checksum mismatch) is counted against
\* the retry ceiling or ends the session with EnrollFailed.
C13_TransportFailureNeverIgnored ==
    [][ (EnrollActive /\ lastOp' = "process"
         /\ Len(rx') = 1 /\ rx'[1] \in RegModelTransportErrors)
        => \/ m_enrollRetryCount' = m_enrollRetryCount + 1
           \/ (HasType(events', "EnrollFailed") /\ m_enrollState' = "Idle") ]_vars

\* C15: in an initialised engine with both machines Idle, startEnroll rejects
\* every target id outside [0, DEFAULT_LIBRARY_SIZE) with
\* ESP_ERR_INVALID_ARG, so a session that was started has its target id
\* inside the library.
C15_TargetIdWithinLibrary ==
    /\ (m_initialized /\ ~EnrollActive /\ ~MatchActive)
       => \A id \in TargetIds :
            id \notin 0..(DEFAULT_LIBRARY_SIZE - 1)
            => startEnrollRet(id) = ESP_ERR_INVALID_ARG
    /\ EnrollActive => m_enrollTargetId \in 0..(DEFAULT_LIBRARY_SIZE - 1)

(***************************************************************************)
(* Properties of the finger module                                         *)
(***************************************************************************)
Posted(evs, id) == \E i \in 1..Len(evs) : evs[i].id = id

\* finger_task, the driver call it is blocked in returns, with a sensor on
\* which every capture of an enrollment step succeeds and every
\* as608_gen_char of an enrollment step fails
WorkerResumeGenCharFails ==
    /\ WorkerResume
    /\ wpc \in {"step1.img", "step2.img"} => wpc' \in {"step1.gen", "step2.gen"}
    /\ wpc \in {"step1.gen", "step2.gen"}
       => Posted(fposted', "FINGER_EVT_IMAGE_FAIL")

NextFingerGenCharFails ==
    \/ WorkerPoll
    \/ WorkerResumeGenCharFails
    \/ finger_start_search
    \/ finger_start_enroll
    \/ finger_cancel
    \/ finger_delete
    \/ finger_delete_all
    \/ CallerResume

\* finger_task is a FreeRTOS task that is always scheduled again, and every
\* driver call returns (with an answer or with a timeout)
SpecFingerGenCharFails ==
    /\ InitFinger
    /\ [][NextFingerGenCharFails]_vars
    /\ WF_vars(WorkerPoll)
    /\ WF_vars(WorkerResumeGenCharFails)

\* C14: when feature extraction fails on every attempt while the captures
\* keep succeeding, an enrollment at step 1 or step 2 that no request
\* interrupts ends with FINGER_EVT_ENROLL_FAIL.
C14_GenCharFailureEndsEnrollment ==
    [](  (s_state \in {"ENROLL_STEP1", "ENROLL_STEP2"} /\ s_queue = << >>)
         => <>(Posted(fposted, "FINGER_EVT_ENROLL_FAIL") \/ s_queue # << >>) )

Enrolling == s_state \in {"ENROLL_STEP1", "ENROLL_STEP2", "ENROLL_STORE"}

\* this step is finger_task taking the request at the head of the queue
Dequeues == wpc = "top" /\ s_queue # << >> /\ s_queue' = Tail(s_queue)

\* this step is the return of the driver call finger_task is blocked in
WorkerCallReturns == wpc # "top" /\ (wpc' # wpc \/ wcnt' # wcnt)

\* C16: a FINGER_CMD_ENROLL or FINGER_CMD_SEARCH request that the worker
\* receives while an enrollment is in progress is rejected: the enrollment
\* keeps its state and its target slot id.
C16_RequestDuringEnrollRejected ==
    [][ (Enrolling /\ Dequeues
         /\ Head(s_queue).cmd \in {"FINGER_CMD_ENROLL", "FINGER_CMD_SEARCH"})
        => (s_state' = s_state /\ s_enroll_id' = s_enroll_id) ]_vars

\* C17: a request is observed by the worker after at most one state-machine
\* step whatever the number of requests waiting before it: when finger_task
\* polls the queue between two steps it takes every waiting request.
C17_PollDrainsQueue ==
    [][ Dequeues => s_queue' = << >> ]_vars

\* C18: with a cancel request waiting at the head of the queue during an
\* enrollment, the sensor round-trip the worker is in is the last one before
\* the cancellation: when it returns the worker is back at the queue.
C18_CancelAfterOneRoundTrip ==
    [][ (Enrolling /\ s_queue # << >>
         /\ Head(s_queue).cmd = "FINGER_CMD_CANCEL" /\ WorkerCallReturns)
        => wpc' = "top" ]_vars

\* finger_task, the driver call it is blocked in returns, with no finger on
\* the sensor: every as608_read_image returns ESP_ERR_NOT_FOUND
WorkerResumeNoFinger ==
    /\ wpc # "top"
    /\ \E o \in DriverOutcomes(WorkerCall(wpc)) :
         /\ WorkerCall(wpc) = "as608_read_image" => o.ret = ESP_ERR_NOT_FOUND
         /\ SetWorker(finger_task_resume(Worker, o))
    /\ UNCHANGED <<s_queue, cpc>>
    /\ UNCHANGED outsideFinger

NextFingerNoFinger ==
    \/ WorkerPoll
    \/ WorkerResumeNoFinger
    \/ finger_start_search
    \/ finger_start_enroll
    \/ finger_cancel
    \/ finger_delete
    \/ finger_delete_all
    \/ CallerResume

SpecFingerNoFinger ==
    /\ InitFinger
    /\ [][NextFingerNoFinger]_vars
    /\ WF_vars(WorkerPoll)
    /\ WF_vars(WorkerResumeNoFinger)

\* C19: with every capture answered NoFinger from the start of the task, a
\* step of the worker that stays in search mode posts no event, and every
\* loop iteration finishes: the worker is back at the queue again and again.
C19_IdleSearchIsSilent ==
    /\ [][ (s_state = "SEARCHING" /\ s_state' = "SEARCHING" /\ wpc' # wpc)
           => fposted' = << >> ]_vars
    /\ [](wpc # "top" => <>(wpc = "top"))

\* the worker was sent back to search mode after an enrollment request and
\* has finished a search iteration without a finger
C19_Witness ==
    /\ s_state = "SEARCHING"
    /\ wpc = "top"
    /\ s_enroll_id # -1
    /\ ~s_finger_on
    /\ fposted = << >>

(***************************************************************************)
(* Driver (components/as608/as608.c): the command functions as608_gen_char, *)
(* as608_reg_model, as608_store and as608_search.  Each as608_send_cmd     *)
(* transmits the command once and blocks for the response; the function is *)
(* blocked in it from the step that sends to the step that takes what      *)
(* as608_send_cmd returned.                                                *)
(***************************************************************************)
AS608_CMD_RETRY_COUNT == 2

DriverFunctions ==
    {"as608_gen_char", "as608_reg_model", "as608_store", "as608_search"}

\* arguments offered to a driver function: buffer ids, slot ids
DriverArgs(fn) ==
    CASE fn = "as608_gen_char" -> {0, 1, 2, 3}
      [] fn = "as608_store" ->
           {0, CFG_AS608_LIBRARY_SIZE - 1, CFG_AS608_LIBRARY_SIZE}
      [] OTHER -> {0}

IS_VALID_BUFFER(id) == id >= 1 /\ id <= 2

\* the argument check at the head of the function
DriverArgValid(fn, arg) ==
    CASE fn = "as608_gen_char" -> IS_VALID_BUFFER(arg)
      [] fn = "as608_store" -> IS_VALID_PAGE(arg)
      [] OTHER -> TRUE

\* the command byte the function hands to as608_send_cmd
DriverCommand(fn) ==
    CASE fn = "as608_gen_char" -> "GenChar"
      [] fn = "as608_reg_model" -> "RegModel"
      [] fn = "as608_store" -> "Store"
      [] fn = "as608_search" -> "Search"

\* what as608_send_cmd returns: a frame that passed the checks (return value
\* ESP_OK, confirmation code and payload in resp_data), or an error of the
\* write, of the read or of the frame checks
SendCmdResults ==
    { as608_send_cmd(f) : f \in Frames }
    \cup { Result(ESP_OK, 0, << >>) }
    \cup { Result(e, 0, << >>) :
             e \in {ESP_FAIL, ESP_ERR_TIMEOUT, ESP_ERR_INVALID_RESPONSE,
                    ESP_ERR_INVALID_CRC} }

\* number of as608_send_cmd calls the function makes at most: as608_gen_char
\* and as608_search wrap it in for (retry = 0; retry < AS608_CMD_RETRY_COUNT;
\* retry++), the others call it once
\* (Attempts_RetryEveryCommand: the loop around every as608_send_cmd)
Attempts_RetryEveryCommand(fn) == AS608_CMD_RETRY_COUNT

Attempts(fn) ==
    IF fn \in {"as608_gen_char", "as608_search"}
    THEN AS608_CMD_RETRY_COUNT
    ELSE 1

as608_code_to_err(code) ==
    CASE code = Ok -> ESP_OK
      [] code = ErrNoFinger -> ESP_ERR_NOT_FOUND
      [] code \in {ErrNotFound, ErrNoMatch} -> ESP_ERR_NOT_FOUND
      [] code = ErrBadLocation -> ESP_ERR_INVALID_ARG
      [] OTHER -> ESP_FAIL

\* return value of the function once as608_send_cmd returned r and the
\* function does not send again
DriverReturn(fn, r) ==
    IF r.ret # ESP_OK THEN r.ret
    ELSE IF r.len < 1 THEN ESP_ERR_INVALID_RESPONSE
    ELSE IF fn = "as608_search"
    THEN IF r.data[1] = Ok /\ r.len >= 5 THEN ESP_OK
         ELSE IF r.data[1] = ErrNotFound THEN ESP_ERR_NOT_FOUND
         ELSE as608_code_to_err(r.data[1])
    ELSE as608_code_to_err(r.data[1])

\* a driver function is called: argument check, then the first as608_send_cmd
DriverCall ==
    /\ d_ret # "none" \/ d_fn = "none"
    /\ \E fn \in DriverFunctions :
         \E arg \in DriverArgs(fn) :
           /\ d_fn' = fn
           /\ d_arg' = arg
           /\ d_retry' = 0
           /\ d_rx' = << >>
           /\ IF DriverArgValid(fn, arg)
              THEN /\ d_sent' = << DriverCommand(fn) >>
                   /\ d_ret' = "none"
              ELSE /\ d_sent' = << >>
                   /\ d_ret' = ESP_ERR_INVALID_ARG
    /\ UNCHANGED outsideDriver

\* as608_send_cmd returns r to the function: the function sends again or
\* returns
DriverSendCmdReturns ==
    /\ d_fn # "none"
    /\ d_ret = "none"
    /\ \E r \in SendCmdResults :
         /\ d_rx' = Append(d_rx, r)
         /\ IF r.ret # ESP_OK /\ d_retry + 1 < Attempts(d_fn)
            THEN /\ d_retry' = d_retry + 1
                 /\ d_sent' = Append(d_sent, DriverCommand(d_fn))
                 /\ d_ret' = "none"
            ELSE /\ d_ret' = DriverReturn(d_fn, r)
                 /\ UNCHANGED <<d_retry, d_sent>>
    /\ UNCHANGED <<d_fn, d_arg>>
    /\ UNCHANGED outsideDriver

InitDriver ==
    EngineStart /\ FingerStatic /\ WireStatic /\ DriverStatic
    /\ CodecStatic /\ ManagerStatic /\ LibraryStatic /\ AppStatic

NextDriver ==
    \/ DriverCall
    \/ DriverSendCmdReturns

SpecDriver == InitDriver /\ [][NextDriver]_vars

SessionFailed ==
    /\ lastOp = "process"
    /\ \/ HasType(events, "EnrollFailed")
       \/ HasType(events, "MatchFailed")
       \/ HasType(events, "Error")

\* the ids of the template library that the model offers to startEnroll
LibraryIds == {id \in TargetIds : id >= 0 /\ id < DEFAULT_LIBRARY_SIZE}

\* C21: when process() has ended an enrollment or match session with
\* EnrollFailed, MatchFailed or Error, both state machines are Idle, both
\* retry counters are 0, and a startEnroll with any id of the library and a
\* startMatch made in that state return ESP_OK.
C21_FailureLeavesEngineReady ==
    SessionFailed =>
        /\ m_enrollState = "Idle"
        /\ m_matchState = "Idle"
        /\ m_enrollRetryCount = 0
        /\ m_matchRetryCount = 0
        /\ \A id \in LibraryIds : startEnrollRet(id) = ESP_OK
        /\ startMatchRet = ESP_OK

\* a match session that was ended by Error after retries of the capture
C21_Witness ==
    /\ SessionFailed
    /\ HasType(events, "Error")
    /\ sent = Tx("GetImage", << >>)
    /\ m_matchState = "Idle"

(***************************************************************************)
(* The packet codecs: as608_build_cmd_packet / as608_parse_response        *)
(* (components/as608/as608_protocol.c), AS608Protocol::buildCommandPacket  *)
(* / parseResponse (components/khoa_as608/as608_protocol.cpp) and          *)
(* AS608Sensor::BuildCommandPacket / ParseResponse                         *)
(* (components/as608/as608_sensor.cpp), each called on the same input.     *)
(***************************************************************************)
AS608_PID_COMMAND == 1

\* longest parameter list given to the builders
MaxParams == 2

Opcodes    == {1, 2, 4, 6, 255}   \* GetImage, GenChar, Search, Store, 0xFF
ParamBytes == {0, 1, 255}

RECURSIVE SeqsUpTo(_, _)
SeqsUpTo(S, n) ==
    IF n = 0 THEN { << >> }
    ELSE LET shorter == SeqsUpTo(S, n - 1) IN
         shorter \cup { Append(q, b) : q \in shorter, b \in S }

ParamLists == SeqsUpTo(ParamBytes, MaxParams)

\* as608_build_cmd_packet(buffer, cmd, params, params_len)
as608_build_cmd_packet(cmd, params) ==
    LET params_len == Len(params)
        length     == (1 + params_len + 2) % 65536
        head       == << AS608_HEADER_HIGH, AS608_HEADER_LOW,
                         255, 255, 255, 255,
                         AS608_PID_COMMAND,
                         (length \div 256) % 256, length % 256,
                         cmd >>
        checksum   == (AS608_PID_COMMAND + ((length \div 256) % 256)
                       + (length % 256) + cmd + Sum(params)) % 65536
        buffer     == head \o params
                      \o << (checksum \div 256) % 256, checksum % 256 >>
    IN Built(Len(buffer), buffer)

\* AS608Protocol::buildCommandPacket(buffer, cmd, params, paramsLen)
buildCommandPacket_ChecksumOfContent(cmd, params) ==
    LET paramsLen == Len(params)
        length    == (1 + paramsLen + 2) % 65536
        head      == << AS608_HEADER_HIGH, AS608_HEADER_LOW,
                        255, 255, 255, 255,
                        AS608_PID_COMMAND,
                        (length \div 256) % 256, length % 256,
                        cmd >>
        checksum  == (cmd + Sum(params)) % 65536
        buffer    == head \o params
                     \o << (checksum \div 256) % 256, checksum % 256 >>
    IN Built(Len(buffer), buffer)
buildCommandPacket(cmd, params) ==
    LET paramsLen == Len(params)
        length    == (1 + paramsLen + 2) % 65536
        head      == << AS608_HEADER_HIGH, AS608_HEADER_LOW,
                        255, 255, 255, 255,
                        AS608_PID_COMMAND,
                        (length \div 256) % 256, length % 256,
                        cmd >>
        checksum  == (AS608_PID_COMMAND + ((length \div 256) % 256)
                      + (length % 256) + cmd + Sum(params)) % 65536
        buffer    == head \o params
                     \o << (checksum \div 256) % 256, checksum % 256 >>
    IN Built(Len(buffer), buffer)

\* AS608Sensor::BuildCommandPacket(buf, cmd, params, params_len): the
\* checksum starts at cmd, without the identifier and the length bytes
BuildCommandPacket(cmd, params) ==
    LET params_len == Len(params)
        length     == (1 + params_len + 2) % 65536
        checksum   == (cmd + Sum(params)) % 65536
        buf        == << 239, 1, 255, 255, 255, 255, 1,
                         (length \div 256) % 256, length % 256, cmd >>
                      \o params
                      \o << (checksum \div 256) % 256, checksum % 256 >>
    IN Built(12 + params_len, buf)

\* as608_parse_response(buffer, len, confirm, data, data_len) with all three
\* output pointers given
as608_parse_response(buffer) ==
    LET len == Len(buffer) IN
    IF len < 12
    THEN ParseResult(ESP_ERR_INVALID_SIZE, 0, 0, << >>)
    ELSE IF At(buffer, 0) # AS608_HEADER_HIGH \/ At(buffer, 1) # AS608_HEADER_LOW
    THEN ParseResult(ESP_ERR_INVALID_RESPONSE, 0, 0, << >>)
    ELSE IF At(buffer, 6) # AS608_PID_ACK
    THEN ParseResult(ESP_ERR_INVALID_RESPONSE, 0, 0, << >>)
    ELSE
    LET length == At(buffer, 7) * 256 + At(buffer, 8) IN
    IF 9 + length > len
    THEN ParseResult(ESP_ERR_INVALID_SIZE, 0, 0, << >>)
    ELSE
    LET checksum      == Sum(Slice(buffer, 6, 9 + length - 2)) % 65536
        recv_checksum == At(buffer, 9 + length - 2) * 256
                         + At(buffer, 9 + length - 1)
    IN
    IF checksum # recv_checksum
    THEN ParseResult(ESP_ERR_INVALID_CRC, 0, 0, << >>)
    ELSE LET data_len == size_t(length - 3) IN
         ParseResult(ESP_OK, At(buffer, 9), data_len,
                     PayloadAt(buffer, data_len))

\* AS608Sensor::ParseResponse(buf, len, confirm, data, data_len): the results
\* the call can have.  *confirm, *data and *data_len are written before the
\* checksum is compared; the checksum starts at the confirmation code.  With
\* a declared length below 3 the loop bound length - 3 is negative and the
\* loop reads past the buffer: the sum it compares is then any value.
ParseResponse(buf) ==
    LET len == Len(buf) IN
    IF len < 12
    THEN { ParseResult(ESP_ERR_INVALID_SIZE, 0, 0, << >>) }
    ELSE IF At(buf, 0) # 239 \/ At(buf, 1) # 1
    THEN { ParseResult(ESP_ERR_INVALID_RESPONSE, 0, 0, << >>) }
    ELSE IF At(buf, 6) # 7
    THEN { ParseResult(ESP_ERR_INVALID_RESPONSE, 0, 0, << >>) }
    ELSE
    LET length == At(buf, 7) * 256 + At(buf, 8) IN
    IF len < 9 + length
    THEN { ParseResult(ESP_ERR_INVALID_SIZE, 0, 0, << >>) }
    ELSE
    LET confirm  == At(buf, 9)
        data_len == size_t(length - 3)
        data     == PayloadAt(buf, data_len)
        expected == At(buf, 9 + length - 2) * 256 + At(buf, 9 + length - 1)
        sums     == IF length < 3
                    THEN { expected, (expected + 1) % 65536 }
                    ELSE { (confirm + Sum(Slice(buf, 10, 10 + length - 3)))
                           % 65536 }
    IN { ParseResult(IF checksum # expected THEN ESP_ERR_INVALID_CRC
                     ELSE ESP_OK,
                     confirm, data_len, data) : checksum \in sums }

\* buffers given to the parsers: the frames of the sensor, whole, cut short,
\* followed by a further byte, with one byte changed, and 12-byte buffers
\* with a short declared length
ShortLengthBuffers ==
    { << 239, 1, 255, 255, 255, 255, 7, 0, l, a, b, c >> :
        l \in 0..3, a \in {0, 9, 10}, b \in {0, 9, 10}, c \in {0, 10} }

ParseBuffers ==
    Frames
    \cup { Take(f, n) : f \in Frames, n \in 0..15 }
    \cup { f \o << 0 >> : f \in Frames }
    \cup { Corrupted(f, at, v) : f \in Frames, at \in 0..11, v \in CorruptValues }
    \cup ShortLengthBuffers

CodecStart ==
    /\ \/ /\ q_mode = "build"
          /\ q_cmd \in Opcodes
          /\ q_params \in ParamLists
          /\ q_buffer = << >>
       \/ /\ q_mode = "parse"
          /\ q_cmd = 0
          /\ q_params = << >>
          /\ q_buffer \in ParseBuffers
    /\ pkt_c = NoPacket
    /\ pkt_k = NoPacket
    /\ pkt_s = NoPacket
    /\ res_c = NoParseResult
    /\ res_k = NoParseResult
    /\ res_s = NoParseResult

outsideCodec == <<engineVars, engineObs, fingerVars, wireVars, driverVars,
    managerVars,
    libraryVars,
    appVars>>

CallBuildCmdPacket ==
    /\ q_mode = "build"
    /\ pkt_c = NoPacket
    /\ pkt_c' = as608_build_cmd_packet(q_cmd, q_params)
    /\ UNCHANGED <<q_mode, q_cmd, q_params, q_buffer, pkt_k, pkt_s,
                   res_c, res_k, res_s>>
    /\ UNCHANGED outsideCodec

CallProtocolBuild ==
    /\ q_mode = "build"
    /\ pkt_k = NoPacket
    /\ pkt_k' = buildCommandPacket(q_cmd, q_params)
    /\ UNCHANGED <<q_mode, q_cmd, q_params, q_buffer, pkt_c, pkt_s,
                   res_c, res_k, res_s>>
    /\ UNCHANGED outsideCodec

CallSensorBuild ==
    /\ q_mode = "build"
    /\ pkt_s = NoPacket
    /\ pkt_s' = BuildCommandPacket(q_cmd, q_params)
    /\ UNCHANGED <<q_mode, q_cmd, q_params, q_buffer, pkt_c, pkt_k,
                   res_c, res_k, res_s>>
    /\ UNCHANGED outsideCodec

CallParseResponse ==
    /\ q_mode = "parse"
    /\ res_c = NoParseResult
    /\ res_c' = as608_parse_response(q_buffer)
    /\ UNCHANGED <<q_mode, q_cmd, q_params, q_buffer, pkt_c, pkt_k, pkt_s,
                   res_k, res_s>>
    /\ UNCHANGED outsideCodec

CallProtocolParse ==
    /\ q_mode = "parse"
    /\ res_k = NoParseResult
    /\ res_k' = parseResponse(q_buffer)
    /\ UNCHANGED <<q_mode, q_cmd, q_params, q_buffer, pkt_c, pkt_k, pkt_s,
                   res_c, res_s>>
    /\ UNCHANGED outsideCodec

CallSensorParse ==
    /\ q_mode = "parse"
    /\ res_s = NoParseResult
    /\ res_s' \in ParseResponse(q_buffer)
    /\ UNCHANGED <<q_mode, q_cmd, q_params, q_buffer, pkt_c, pkt_k, pkt_s,
                   res_c, res_k>>
    /\ UNCHANGED outsideCodec

InitCodec ==
    EngineStart /\ FingerStatic /\ WireStatic /\ DriverStatic /\ CodecStart
    /\ ManagerStatic /\ LibraryStatic /\ AppStatic

NextCodec ==
    \/ CallBuildCmdPacket
    \/ CallProtocolBuild
    \/ CallSensorBuild
    \/ CallParseResponse
    \/ CallProtocolParse
    \/ CallSensorParse

SpecCodec == InitCodec /\ [][NextCodec]_vars

\* the frame the protocol prescribes for a command: header EF 01, address
\* FF FF FF FF, type 01, length, opcode, parameters, and the sum of every
\* byte from the type byte through the last parameter
IsCommandFrame(p, cmd, params) ==
    LET n == Len(params) IN
    /\ p.size = 12 + n
    /\ Len(p.bytes) = 12 + n
    /\ SubSeq(p.bytes, 1, 7) = << 239, 1, 255, 255, 255, 255, 1 >>
    /\ p.bytes[8] * 256 + p.bytes[9] = 1 + n + 2
    /\ p.bytes[10] = cmd
    /\ SubSeq(p.bytes, 11, 10 + n) = params
    /\ p.bytes[11 + n] * 256 + p.bytes[12 + n]
         = Sum(SubSeq(p.bytes, 7, 10 + n)) % 65536
    /\ \A i \in 1..(12 + n) : p.bytes[i] \in 0..255

\* C22: the packet that as608_build_cmd_packet and
\* AS608Protocol::buildCommandPacket return for an opcode and a parameter
\* list is the command frame of the protocol: header EF 01, four address
\* bytes FF, type 01, big-endian length 1 + |params| + 2, opcode, parameters,
\* big-endian sum mod 65536 of the bytes from the type byte through the last
\* parameter; the returned size is 12 + |params|.
C22_BuiltPacketIsCommandFrame ==
    /\ pkt_c # NoPacket => IsCommandFrame(pkt_c, q_cmd, q_params)
    /\ pkt_k # NoPacket => IsCommandFrame(pkt_k, q_cmd, q_params)

\* both builders were called for Store(buffer 1, slot 255)
C22_Witness ==
    /\ q_cmd = 6
    /\ Len(q_params) >= 2
    /\ q_params[1] = 1 /\ q_params[2] = 255
    /\ pkt_c # NoPacket
    /\ pkt_k # NoPacket
    /\ pkt_c.size = 12 + Len(q_params)

\* the input lacks the 12 bytes of the shortest frame, the header bytes or
\* the Ack packet type
Malformed(b) ==
    \/ Len(b) < 12
    \/ At(b, 0) # 239 \/ At(b, 1) # 1
    \/ At(b, 6) # 7

DeclaredLength(b) == At(b, 7) * 256 + At(b, 8)

\* what the parser has to return for the buffer b
ParsedAsSpecified(r, b) ==
    IF Malformed(b)
    THEN r.ret \in {ESP_ERR_INVALID_SIZE, ESP_ERR_INVALID_RESPONSE}
    ELSE IF 9 + DeclaredLength(b) > Len(b)
    THEN r.ret # ESP_OK
    ELSE IF Sum(Slice(b, 6, 7 + DeclaredLength(b))) % 65536
            # At(b, 7 + DeclaredLength(b)) * 256 + At(b, 8 + DeclaredLength(b))
    THEN r.ret = ESP_ERR_INVALID_CRC
    ELSE /\ r.ret = ESP_OK
         /\ r.confirm = At(b, 9)
         /\ r.len = DeclaredLength(b) - 3
         /\ r.data = Slice(b, 10, 10 + DeclaredLength(b) - 3)

\* C23: as608_parse_response and AS608Protocol::parseResponse reject a buffer
\* as malformed when it has fewer than 12 bytes, wrong header bytes or a
\* packet type other than Ack, reject it with a checksum mismatch when the
\* 16-bit sum over type, length, confirmation and payload differs from the
\* two bytes that follow the payload, and otherwise return the confirmation
\* code at offset 9 and a payload of exactly declared length - 3 bytes that
\* starts at offset 10.
C23_ParseClassifiesEveryBuffer ==
    /\ res_c # NoParseResult => ParsedAsSpecified(res_c, q_buffer)
    /\ res_k # NoParseResult => ParsedAsSpecified(res_k, q_buffer)

\* C24: AS608Sensor::BuildCommandPacket returns the bytes that
\* as608_build_cmd_packet returns for the same opcode and parameters, and
\* AS608Sensor::ParseResponse accepts exactly the buffers that
\* as608_parse_response accepts, with the same confirmation code and payload;
\* in particular it accepts every frame whose checksum is the sum from the
\* type byte through the payload.
C24_SensorCodecAgreesWithDriver ==
    /\ (pkt_c # NoPacket /\ pkt_s # NoPacket) => pkt_s = pkt_c
    /\ (res_c # NoParseResult /\ res_s # NoParseResult) =>
          /\ (res_s.ret = ESP_OK) <=> (res_c.ret = ESP_OK)
          /\ res_s.ret = ESP_OK =>
                /\ res_s.confirm = res_c.confirm
                /\ res_s.len = res_c.len
                /\ res_s.data = res_c.data
    /\ (res_s # NoParseResult /\ q_buffer \in Frames) => res_s.ret = ESP_OK

(***************************************************************************)
(* AS608Manager (components/as608/as608_manager.cpp): every method begins  *)
(* with std::lock_guard<std::mutex> lock(mutex_).  Two threads call the    *)
(* methods.  mgr_stack[t] holds the frames of the calls thread t is in,    *)
(* outermost first; a frame is at its lock_guard ("lock"), in its body     *)
(* with the mutex ("locked"), inside a call of another method ("calling"), *)
(* back from that call ("resumed") or at its return ("done").              *)
(***************************************************************************)
Threads == {1, 2}

\* methods that take the mutex, check initialized_, make one exchange with
\* the sensor and return
CommandMethods ==
    { "ReadImage", "GenerateCharacter", "RegisterModel", "StoreTemplate",
      "SearchTemplate", "DeleteTemplate", "EmptyLibrary", "GetTemplateCount" }

PublicMethods ==
    { "Initialize", "Deinitialize", "IsInitialized", "SetEventCallback",
      "EnrollFingerprint", "~AS608Manager" } \cup CommandMethods

\* the methods EnrollFingerprint calls, in order
EnrollCalls ==
    << "ReadImage", "GenerateCharacter", "ReadImage", "GenerateCharacter",
       "RegisterModel", "StoreTemplate" >>

Frame(fn, pc, k, ret) == [fn |-> fn, pc |-> pc, k |-> k, ret |-> ret]

TopFrame(t) == mgr_stack[t][Len(mgr_stack[t])]

SetTop(t, f) ==
    mgr_stack' = [mgr_stack EXCEPT ![t] = [@ EXCEPT ![Len(@)] = f]]

\* the top frame goes on inside a call of the method fn
PushCall(t, f, fn) ==
    mgr_stack' = [mgr_stack EXCEPT ![t] =
                    Append([@ EXCEPT ![Len(@)] = f],
                           Frame(fn, "lock", 0, "none"))]

\* what sensor_.Initialize and an exchange with the sensor return
SensorResults == {ESP_OK, ESP_FAIL}

outsideManager == <<engineVars, engineObs, fingerVars, wireVars, driverVars,
    codecVars,
    libraryVars,
    appVars>>

\* a thread calls a public method
MgrCall(t, fn) ==
    /\ mgr_stack[t] = << >>
    /\ mgr_stack' = [mgr_stack EXCEPT ![t] = << Frame(fn, "lock", 0, "none") >>]
    /\ UNCHANGED <<initialized_, mutex_, mgr_ret>>
    /\ UNCHANGED outsideManager

\* std::lock_guard<std::mutex> lock(mutex_) with the mutex free
MgrLock(t) ==
    /\ mgr_stack[t] # << >>
    /\ TopFrame(t).pc = "lock"
    /\ mutex_ = 0
    /\ mutex_' = t
    /\ SetTop(t, [TopFrame(t) EXCEPT !.pc = "locked"])
    /\ UNCHANGED <<initialized_, mgr_ret>>
    /\ UNCHANGED outsideManager

\* std::lock_guard<std::mutex> lock(mutex_) by the thread that owns mutex_:
\* std::mutex is not recursive and the behaviour is undefined; the thread
\* waits for itself for ever, or lock() fails and the program is aborted
MgrRelock(t) ==
    /\ mgr_stack[t] # << >>
    /\ TopFrame(t).pc = "lock"
    /\ mutex_ = t
    /\ \E outcome \in {"blocked", "aborted"} :
         SetTop(t, [TopFrame(t) EXCEPT !.pc = outcome])
    /\ UNCHANGED <<initialized_, mutex_, mgr_ret>>
    /\ UNCHANGED outsideManager

\* the body of the method of the top frame, up to its return or up to the
\* next method it calls
MgrStep(t) ==
    /\ mgr_stack[t] # << >>
    /\ TopFrame(t).pc \in {"locked", "resumed"}
    /\ LET f  == TopFrame(t)
           done(ret) == [f EXCEPT !.pc = "done", !.ret = ret]
       IN
       CASE f.fn = "Initialize" /\ f.pc = "locked" ->
              IF initialized_
              THEN SetTop(t, done(ESP_OK)) /\ UNCHANGED initialized_
              ELSE \E ret \in SensorResults :
                     /\ IF ret # ESP_OK
                        THEN SetTop(t, done(ret))
                        ELSE PushCall(t, [f EXCEPT !.pc = "calling"],
                                      "Handshake")
                     /\ UNCHANGED initialized_
         [] f.fn = "Initialize" /\ f.pc = "resumed" ->
              /\ initialized_' = TRUE
              /\ SetTop(t, done(ESP_OK))
         [] f.fn = "Deinitialize" ->
              /\ initialized_' = FALSE
              /\ SetTop(t, done("void"))
         [] f.fn \in {"IsInitialized", "SetEventCallback"} ->
              /\ SetTop(t, done("void"))
              /\ UNCHANGED initialized_
         [] f.fn = "~AS608Manager" /\ f.pc = "locked" ->
              /\ IF initialized_
                 THEN PushCall(t, [f EXCEPT !.pc = "calling"], "Deinitialize")
                 ELSE SetTop(t, done("void"))
              /\ UNCHANGED initialized_
         [] f.fn = "~AS608Manager" /\ f.pc = "resumed" ->
              /\ SetTop(t, done("void"))
              /\ UNCHANGED initialized_
         [] f.fn = "EnrollFingerprint" /\ f.pc = "locked" ->
              /\ IF ~initialized_
                 THEN SetTop(t, done(ESP_ERR_INVALID_STATE))
                 ELSE PushCall(t, [f EXCEPT !.pc = "calling", !.k = 1],
                               EnrollCalls[1])
              /\ UNCHANGED initialized_
         [] f.fn = "EnrollFingerprint" /\ f.pc = "resumed" ->
              /\ IF f.ret # ESP_OK
                 THEN SetTop(t, done(f.ret))
                 ELSE IF f.k < Len(EnrollCalls)
                 THEN PushCall(t, [f EXCEPT !.pc = "calling", !.k = f.k + 1],
                               EnrollCalls[f.k + 1])
                 ELSE SetTop(t, done(ESP_OK))
              /\ UNCHANGED initialized_
         [] OTHER ->    \* Handshake and the command methods
              /\ IF ~initialized_
                 THEN SetTop(t, done(ESP_ERR_INVALID_STATE))
                 ELSE \E ret \in SensorResults : SetTop(t, done(ret))
              /\ UNCHANGED initialized_
    /\ UNCHANGED <<mutex_, mgr_ret>>
    /\ UNCHANGED outsideManager

\* the method of the top frame returns: its lock_guard releases the mutex
\* and the caller, if it is a method of the manager, takes the return value
MgrReturn(t) ==
    /\ mgr_stack[t] # << >>
    /\ TopFrame(t).pc = "done"
    /\ LET n    == Len(mgr_stack[t])
           ret  == TopFrame(t).ret
           rest == SubSeq(mgr_stack[t], 1, n - 1)
       IN mgr_stack' = [mgr_stack EXCEPT ![t] =
                          IF n = 1 THEN << >>
                          ELSE [rest EXCEPT ![n - 1] =
                                  [@ EXCEPT !.pc = "resumed", !.ret = ret]]]
    /\ mgr_ret' = IF Len(mgr_stack[t]) = 1
                  THEN [mgr_ret EXCEPT ![t] = TopFrame(t).ret]
                  ELSE mgr_ret
    /\ mutex_' = 0
    /\ UNCHANGED initialized_
    /\ UNCHANGED outsideManager

ManagerStart == ManagerStatic

InitManager ==
    EngineStart /\ FingerStatic /\ WireStatic /\ DriverStatic /\ CodecStatic
    /\ ManagerStart /\ LibraryStatic /\ AppStatic

NextManager ==
    \E t \in Threads :
        \/ \E fn \in PublicMethods : MgrCall(t, fn)
        \/ MgrLock(t)
        \/ MgrRelock(t)
        \/ MgrStep(t)
        \/ MgrReturn(t)

SpecManager == InitManager /\ [][NextManager]_vars

\* thread t is at the lock_guard of a method
AtLock(t) == mgr_stack[t] # << >> /\ TopFrame(t).pc = "lock"

\* C25: no call of a public AS608Manager method waits for the manager's
\* mutex while the calling thread itself holds it, so that every call gets
\* the mutex once the other thread has returned, and Initialize,
\* EnrollFingerprint and the destructor complete.
C25_NoCallWaitsForOwnMutex ==
    \A t \in Threads : ~(AtLock(t) /\ mutex_ = t)

(***************************************************************************)
(* The template library: enrollment sessions of the finger module that     *)
(* run to their end, finger_delete and finger_delete_all, against a sensor *)
(* that stores a template at the slot of the Store command (replacing the  *)
(* template the slot holds), frees the slot of a Delete command and        *)
(* answers TemplateCount with the number of slots in use.                  *)
(***************************************************************************)
\* explicit slot ids used by enrollments and deletions: 0 .. MaxSlot
MaxSlot == 2

AllSlots == 0 .. (CFG_AS608_LIBRARY_SIZE - 1)

\* the library when finger_init reads the count: empty, or full
InitialLibraries == { {}, AllSlots }

LibraryStart ==
    /\ s_state = "SEARCHING"
    /\ s_enroll_id = -1
    /\ s_finger_on = FALSE
    /\ lib_slots \in InitialLibraries
    /\ s_template_count = Cardinality(lib_slots)
    /\ s_queue = << >>
    /\ wpc = "top"
    /\ wcnt = 0
    /\ wcont = "none"
    /\ cpc = "idle"
    /\ fposted = << >>
    /\ lib_last = LibOp("none", -1, FALSE)

outsideLibrary ==
    <<engineVars, engineObs, wireVars, driverVars, codecVars, managerVars,
      appVars, s_state, s_enroll_id, s_finger_on, s_queue, wpc, wcnt, wcont, cpc,
      fposted>>

\* process_cmd(FINGER_CMD_ENROLL, param): the slot of the session, -1 when
\* the request is refused
enroll_slot(param) ==
    IF param < 0 THEN find_free_slot(s_template_count)
    ELSE IF param >= CFG_AS608_LIBRARY_SIZE THEN -1
    ELSE param

\* finger_start_enroll(param) and the session it starts, up to the end of
\* do_enroll_store: the session is refused, fails before as608_store, or
\* stores the template and reads the count
LibEnroll(param) ==
    /\ \/ s_template_count <= MaxSlot
       \/ s_template_count >= CFG_AS608_LIBRARY_SIZE - MaxSlot - 1
    /\ LET id == enroll_slot(param)
           op == IF param < 0 THEN "enroll_auto" ELSE "enroll_at"
       IN
       IF id < 0
       THEN /\ lib_last' = LibOp(op \o ".refused", id, FALSE)
            /\ UNCHANGED <<lib_slots, s_template_count>>
       ELSE \/ /\ lib_last' = LibOp(op \o ".failed", id, id \notin lib_slots)
               /\ UNCHANGED <<lib_slots, s_template_count>>
            \/ /\ lib_slots' = lib_slots \cup {id}
               /\ s_template_count' = Cardinality(lib_slots \cup {id})
               /\ lib_last' = LibOp(op \o ".stored", id, id \notin lib_slots)
    /\ UNCHANGED outsideLibrary

\* finger_delete(finger_id) answered by the sensor
LibDelete(finger_id) ==
    /\ lib_slots' = lib_slots \ {finger_id}
    /\ s_template_count' = Cardinality(lib_slots \ {finger_id})
    /\ lib_last' = LibOp("delete", finger_id, finger_id \notin lib_slots)
    /\ UNCHANGED outsideLibrary

\* finger_delete_all() answered by the sensor
LibDeleteAll ==
    /\ lib_slots' = {}
    /\ s_template_count' = 0
    /\ lib_last' = LibOp("delete_all", -1, lib_slots = {})
    /\ UNCHANGED outsideLibrary

InitLibrary ==
    EngineStart /\ LibraryStart /\ WireStatic /\ DriverStatic /\ CodecStatic
    /\ ManagerStatic /\ AppStatic

NextLibrary ==
    \/ \E param \in -1 .. MaxSlot : LibEnroll(param)
    \/ \E finger_id \in 0 .. MaxSlot : LibDelete(finger_id)
    \/ LibDeleteAll

SpecLibrary == InitLibrary /\ [][NextLibrary]_vars

\* C26: find_free_slot returns a free slot id in [0, capacity) or -1 when the
\* library is full: an enrollment with automatic slot choice is refused
\* only when every slot holds a template, and it stores the new template
\* only at a slot in the library's range that held no template before.
C26_AutoSlotIsFree ==
    /\ lib_last.op = "enroll_auto.stored" =>
          /\ lib_last.id \in AllSlots
          /\ lib_last.fresh
    /\ lib_last.op = "enroll_auto.refused" => lib_slots = AllSlots

(***************************************************************************)
(* The order of an enrollment session of the engine                        *)
(***************************************************************************)
StoreCommand(id) ==
    [cmd |-> "StoreChar", params |-> << 1, id \div 256, id % 256 >>]

\* C27: the commands of an enrollment session follow the procedure
\* GetImage until Ok, GenChar(1), GetImage until NoFinger, GetImage until
\* Ok, GenChar(2), RegModel, Store: apart from a GenChar failure going back
\* to the capture before it, no command is sent out of this order.  The call
\* that fires EnrollComplete is the one that sent the only Store command of
\* the session, for buffer 1 and the target id, after RegModel succeeded;
\* the target id is the one given to startEnroll and does not change while
\* the session runs.
C27_EnrollmentFollowsProcedure ==
    [][ /\ sessPhase' # -1
        /\ HasType(events', "EnrollComplete") =>
              /\ lastOp' = "process"
              /\ sessPhase = 6
              /\ sessPhase' = 7
              /\ sessStore' = 1
              /\ sent' = << StoreCommand(m_enrollTargetId) >>
              /\ CompleteIds(events') = << m_enrollTargetId >>
        /\ (lastOp' = "startEnroll" /\ lastRet' = ESP_OK) =>
              /\ Len(events') = 1
              /\ events'[1].type = "EnrollStart"
              /\ m_enrollTargetId' = events'[1].data.id
        /\ (EnrollActive /\ m_enrollState' # "Idle") =>
              m_enrollTargetId' = m_enrollTargetId
      ]_vars

\* a session has fired EnrollComplete
C27_Witness ==
    /\ lastOp = "process"
    /\ HasType(events, "EnrollComplete")
    /\ sessPhase = 7
    /\ sessStore = 1
    /\ Len(sent) = 1 /\ sent[1].cmd = "StoreChar"

AfterRemoval == {"WaitFinger2", "GenChar2", "CreateModel", "StoreModel"}

\* C28: in WaitRemoveFinger a capture answered NoFinger moves the engine to
\* WaitFinger2 and fires FingerRemoved once; a capture answered Ok or ending
\* in any error keeps it in WaitRemoveFinger and fires no event.
\* FingerRemoved is fired at no other step, so a session fires it at most
\* once, and exactly once before it is in WaitFinger2 or a later state.
C28_RemovalGatesSecondCapture ==
    [][ /\ (m_enrollState = "WaitRemoveFinger" /\ lastOp' = "process") =>
              IF Len(rx') > 0 /\ IsNoFinger(rx'[1])
              THEN /\ m_enrollState' = "WaitFinger2"
                   /\ CountType(events', "FingerRemoved") = 1
              ELSE /\ m_enrollState' = "WaitRemoveFinger"
                   /\ events' = << >>
        /\ HasType(events', "FingerRemoved") =>
              /\ m_enrollState = "WaitRemoveFinger"
              /\ m_enrollState' = "WaitFinger2"
        /\ sessRemoved' <= 1
        /\ m_enrollState' \in AfterRemoval => sessRemoved' = 1
        /\ m_enrollState' \in {"WaitFinger1", "GenChar1", "WaitRemoveFinger"}
              => sessRemoved' = 0
        /\ HasType(events', "EnrollComplete") => sessRemoved' = 1
      ]_vars

\* the finger was lifted after at least one capture that kept the engine
\* waiting
C28_Witness ==
    /\ lastOp = "process"
    /\ HasType(events, "FingerRemoved")
    /\ m_enrollState = "WaitFinger2"
    /\ sessRemoved = 1
    /\ sessPhase = 3

RetryStates == {"WaitFinger1", "GenChar1", "WaitFinger2", "GenChar2"}

PrecedingWaitFinger(state) ==
    IF state \in {"WaitFinger1", "GenChar1"} THEN "WaitFinger1"
    ELSE "WaitFinger2"

\* a failure that counts as a retry: for a capture any answer but Ok and
\* NoFinger, for GenChar any answer but Ok
CountedFailure(state, o) ==
    IF state \in {"WaitFinger1", "WaitFinger2"}
    THEN ~IsOk(o) /\ ~IsNoFinger(o)
    ELSE ~IsOk(o)

\* C30: in WaitFinger1, GenChar1, WaitFinger2 and GenChar2 a failure other
\* than NoFinger increments the retry counter; when the counter reaches
\* MAX_RETRY_COUNT the session goes to Idle with exactly one EnrollFailed,
\* below that the engine is in the WaitFinger state of the step afterwards;
\* in every state with a session in progress the counter is in
\* 0 .. MAX_RETRY_COUNT - 1.
C30_RetryCeiling ==
    [][ /\ ( /\ m_enrollState \in RetryStates
             /\ lastOp' = "process"
             /\ Len(rx') > 0
             /\ CountedFailure(m_enrollState, rx'[1]) ) =>
              IF m_enrollRetryCount + 1 < MAX_RETRY_COUNT
              THEN /\ m_enrollRetryCount' = m_enrollRetryCount + 1
                   /\ m_enrollState' = PrecedingWaitFinger(m_enrollState)
                   /\ events' = << >>
              ELSE /\ m_enrollState' = "Idle"
                   /\ m_enrollRetryCount' = 0
                   /\ CountType(events', "EnrollFailed") = 1
                   /\ Len(events') = 1
        /\ m_enrollState' # "Idle" =>
              m_enrollRetryCount' \in 0 .. (MAX_RETRY_COUNT - 1)
      ]_vars

\* the third failure of a session was a GenChar(2) failure
C30_Witness ==
    /\ lastOp = "process"
    /\ sent = << [cmd |-> "GenChar", params |-> << 2 >>] >>
    /\ HasType(events, "EnrollFailed")
    /\ m_enrollState = "Idle"
    /\ sessPhase = 3

(***************************************************************************)
(* The finger worker with a finger that is never reported lifted: inside   *)
(* wait_finger_remove every as608_read_image returns ESP_OK or an error of *)
(* the transport, never ESP_ERR_NOT_FOUND.                                 *)
(***************************************************************************)
WorkerResumeFingerStays ==
    /\ wpc # "top"
    /\ \E o \in DriverOutcomes(WorkerCall(wpc)) :
         /\ wpc = "wfr" => o.ret # ESP_ERR_NOT_FOUND
         /\ SetWorker(finger_task_resume(Worker, o))
    /\ UNCHANGED <<s_queue, cpc>>
    /\ UNCHANGED outsideFinger

NextFingerStays ==
    \/ WorkerPoll
    \/ WorkerResumeFingerStays
    \/ finger_start_search
    \/ finger_start_enroll
    \/ finger_cancel
    \/ finger_delete
    \/ finger_delete_all
    \/ CallerResume

SpecFingerStays == InitFinger /\ [][NextFingerStays]_vars

\* C29: after step 1 succeeded the worker posts FINGER_EVT_REMOVED and moves
\* to step 2 only after the sensor reported NoFinger: as long as the captures
\* of wait_finger_remove succeed or fail on the transport, the worker stays
\* in step 1 and posts no FINGER_EVT_REMOVED.
C29_RemovalOnlyOnNoFinger ==
    [][ (wpc = "wfr" /\ wcont = "step1.ok")
        => /\ s_state' = "ENROLL_STEP1"
           /\ ~Posted(fposted', "FINGER_EVT_REMOVED") ]_vars

(***************************************************************************)
(* The retry budget of the capture and feature-extraction states           *)
(***************************************************************************)
GenCharStates == {"GenChar1", "GenChar2"}

\* the failures of GenChar among the failures a retry counter holds
GenCharFailures(retry, captures) == retry - captures

\* C31: the retry budget is counted per state.  A call of process() that
\* ends the session on a failed GenChar (EnrollFailed fired from GenChar1 or
\* GenChar2, MatchFailed fired from the match state GenChar) does so on the
\* MAX_RETRY_COUNT-th failure of GenChar, however many captures failed
\* before it, and a state machine that enters a GenChar state after a
\* successful capture carries no failed capture in its retry counter.
C31_RetryCountedPerState ==
    [][ lastOp' = "process" =>
          /\ (m_enrollState \in GenCharStates
              /\ HasType(events', "EnrollFailed"))
             => GenCharFailures(m_enrollRetryCount, captureFails.enroll) + 1
                  >= MAX_RETRY_COUNT
          /\ (m_matchState = "GenChar" /\ HasType(events', "MatchFailed"))
             => GenCharFailures(m_matchRetryCount, captureFails.match) + 1
                  >= MAX_RETRY_COUNT
          /\ m_enrollState' \in GenCharStates => captureFails'.enroll = 0
          /\ m_matchState' = "GenChar" => captureFails'.match = 0 ]_vars

(***************************************************************************)
(* Waiting for the finger                                                  *)
(***************************************************************************)
\* the call of process() that ends in the primed state sent one GetImage
\* and the sensor answered it with "no finger on the sensor"
CaptureAnsweredNoFinger ==
    /\ lastOp' = "process"
    /\ sent' = << [cmd |-> "GetImage", params |-> << >>] >>
    /\ rx' = << Answer(ErrNoFinger) >>

\* C32: in WaitFinger1 and WaitFinger2, and in the match state WaitFinger,
\* a capture answered NoFinger leaves the state, the retry counter, the
\* target id and the step as they were and fires no event; as this holds
\* for every such call, it holds for any number of them in a row.
C32_NoFingerKeepsWaiting ==
    [][ CaptureAnsweredNoFinger =>
          /\ m_enrollState \in {"WaitFinger1", "WaitFinger2"}
             => /\ UNCHANGED <<m_enrollState, m_enrollRetryCount,
                               m_enrollTargetId, m_enrollStep>>
                /\ events' = << >>
          /\ m_matchState = "WaitFinger"
             => /\ UNCHANGED <<m_matchState, m_matchRetryCount,
                               m_enrollTargetId, m_enrollStep>>
                /\ events' = << >> ]_vars

\* a second capture of an enrollment answered NoFinger after one capture
\* had failed
C32_Witness ==
    /\ lastOp = "process"
    /\ rx = << Answer(ErrNoFinger) >>
    /\ events = << >>
    /\ m_enrollState = "WaitFinger2"
    /\ m_enrollRetryCount = 1
    /\ m_enrollStep = 2

(***************************************************************************)
(* The cancel request of the finger module                                 *)
(***************************************************************************)
\* C33: the worker posts FINGER_EVT_ENROLL_CANCEL only while an enrollment
\* session is in progress: whenever the worker takes a message from its
\* queue and posts FINGER_EVT_ENROLL_CANCEL, it was in one of the enrollment
\* states, so not merely searching and not past the end of a session whose
\* FINGER_EVT_ENROLL_OK or FINGER_EVT_ENROLL_FAIL is already posted.
C33_CancelOnlyDuringEnrollment ==
    [][ (Dequeues /\ Posted(fposted', "FINGER_EVT_ENROLL_CANCEL"))
          => Enrolling ]_vars

(***************************************************************************)
(* Application controller (main/app/app.c) on top of the finger module.    *)
(* post_event of finger.c puts each FINGER_EVENT on the event loop, whose  *)
(* task calls on_finger_event for one event at a time; the API of the      *)
(* application is called from the button handler and from the web server.  *)
(* This specification covers searching and enrollment: app_delete_finger   *)
(* and the WiFi configuration mode are not part of it.                     *)
(***************************************************************************)
\* events the loop holds at most; esp_event_post waits while it is full
MaxPending == 3

AppEnrollStates == {"ENROLL_STEP1", "ENROLL_STEP2", "ENROLL_STORE"}

outsideFingerApp == <<engineVars, engineObs, wireVars, driverVars, codecVars,
                      managerVars, libraryVars>>

\* on_finger_event(id): s_state of app.c after the handler
on_finger_event(id) ==
    CASE id = "FINGER_EVT_ERROR" -> "ERROR"
      [] id \in {"FINGER_EVT_MATCH", "FINGER_EVT_NO_MATCH"} -> "IDLE"
      [] id = "FINGER_EVT_ENROLL_STEP1" -> "ENROLL_STEP2"
      [] id = "FINGER_EVT_ENROLL_STEP2" -> "ENROLL_STORE"
      [] id \in {"FINGER_EVT_ENROLL_OK", "FINGER_EVT_ENROLL_FAIL",
                 "FINGER_EVT_ENROLL_CANCEL"} -> "IDLE"
      [] id \in {"FINGER_EVT_DELETE_OK", "FINGER_EVT_DELETE_FAIL",
                 "FINGER_EVT_DELETE_ALL_OK"} -> "IDLE"
      [] OTHER -> app_state

\* post_event: the events of one step of the finger module join the loop
post_event(evs) ==
    /\ Len(evt_loop) + Len(evs) <= MaxPending
    /\ evt_loop' = evt_loop \o [i \in 1..Len(evs) |-> evs[i].id]

\* after app_init() and app_start()
AppStart ==
    /\ app_state = "IDLE"
    /\ evt_loop = << >>

AppWorkerPoll ==
    /\ finger_task_iteration
    /\ post_event(fposted')
    /\ UNCHANGED app_state
    /\ UNCHANGED outsideFingerApp

AppWorkerResume ==
    /\ finger_task_call_returns
    /\ post_event(fposted')
    /\ UNCHANGED app_state
    /\ UNCHANGED outsideFingerApp

\* the event loop task delivers the oldest event
AppFingerEvent ==
    /\ evt_loop # << >>
    /\ app_state' = on_finger_event(Head(evt_loop))
    /\ evt_loop' = Tail(evt_loop)
    /\ UNCHANGED fingerVars
    /\ UNCHANGED outsideFingerApp

\* app_start_enroll(): the result of finger_start_enroll(-1) is not read
app_start_enroll ==
    /\ IF app_state # "IDLE"
       THEN UNCHANGED <<app_state, fingerVars>>
       ELSE /\ app_state' = "ENROLL_STEP1"
            /\ xQueueSend("FINGER_CMD_ENROLL", -1)
    /\ UNCHANGED evt_loop
    /\ UNCHANGED outsideFingerApp

app_cancel ==
    /\ IF app_state \in AppEnrollStates
       THEN xQueueSend("FINGER_CMD_CANCEL", 0)
       ELSE UNCHANGED fingerVars
    /\ app_state' = "IDLE"
    /\ UNCHANGED evt_loop
    /\ UNCHANGED outsideFingerApp

app_request_search ==
    /\ IF app_state = "IDLE"
       THEN /\ app_state' = "SEARCHING"
            /\ xQueueSend("FINGER_CMD_SEARCH", 0)
       ELSE UNCHANGED <<app_state, fingerVars>>
    /\ UNCHANGED evt_loop
    /\ UNCHANGED outsideFingerApp

InitApp ==
    EngineStart /\ FingerStart /\ WireStatic /\ DriverStatic /\ CodecStatic
    /\ ManagerStatic /\ LibraryStatic /\ AppStart

NextApp ==
    \/ AppWorkerPoll
    \/ AppWorkerResume
    \/ AppFingerEvent
    \/ app_start_enroll
    \/ app_cancel
    \/ app_request_search

SpecApp == InitApp /\ [][NextApp]_vars

CancelPending ==
    \E i \in 1..Len(s_queue) : s_queue[i].cmd = "FINGER_CMD_CANCEL"

\* C34: application state and worker state stay consistent.  Whenever the
\* finger worker is in an enrollment state, and no cancel request is still
\* on its way to it, the application state is ENROLL_STEP1, ENROLL_STEP2 or
\* ENROLL_STORE.
C34_AppFollowsWorker ==
    (Enrolling /\ ~CancelPending) => app_state \in AppEnrollStates

(***************************************************************************)
(* The target slot of the finger worker                                    *)
(***************************************************************************)
\* the worker takes an enroll request it has to refuse: an explicit id at or
\* above the capacity, or an automatic slot with no slot left
RefusedEnrollRequest ==
    /\ Dequeues
    /\ Head(s_queue).cmd = "FINGER_CMD_ENROLL"
    /\ \/ Head(s_queue).param >= CFG_AS608_LIBRARY_SIZE
       \/ Head(s_queue).param < 0 /\ find_free_slot(s_template_count) < 0

\* C35: the worker is inside as608_store only with a target id in
\* [0, CFG_AS608_LIBRARY_SIZE); a refused enroll request posts
\* FINGER_EVT_ENROLL_FAIL, leaves the worker Idle and starts no driver
\* call; and the target id is -1 whenever the worker is Idle or searching.
C35_StoreOnlyToValidTarget ==
    [][ /\ wpc' = "store.store" => IS_VALID_PAGE(s_enroll_id')
        /\ RefusedEnrollRequest
             => /\ Posted(fposted', "FINGER_EVT_ENROLL_FAIL")
                /\ s_state' = "IDLE"
                /\ wpc' = "top"
        /\ s_state' \in {"IDLE", "SEARCHING"} => s_enroll_id' = -1 ]_vars

\* C36: whenever as608_parse_response or AS608Protocol::parseResponse
\* returns success, the declared length is at least 3 and the payload it
\* returns lies inside the buffer: 10 + payload length + 2 <= len.
C36_AcceptedPayloadInsideBuffer ==
    \A r \in {res_c, res_k} :
       r.ret = ESP_OK
         => /\ DeclaredLength(q_buffer) >= 3
            /\ 10 + r.len + 2 <= Len(q_buffer)

(***************************************************************************)
(* as608_send_cmd and the response array of its caller.  The command       *)
(* functions of as608.c pass a local array (uint8_t resp[8]; resp[16] in   *)
(* as608_search) and no size; the line delivers whatever the sensor sends. *)
(***************************************************************************)
\* uint8_t resp[8] of as608_get_image, as608_gen_char, as608_reg_model,
\* as608_store, ...; uint8_t resp[16] of as608_search
RespSizes == {8, 16}

\* responses with a confirmation code and 8 or 16 more bytes
LongFrames ==
    { ResponseFrame(Ok, [i \in 1..n |-> i]) : n \in {8, 16} }

\* the first bytes of a response whose length field declares 0 or 1
ShortLengthStreams ==
    { << AS608_HEADER_HIGH, AS608_HEADER_LOW, 255, 255, 255, 255,
         AS608_PID_ACK, 0, l >> \o tail :
        l \in 0..1, tail \in { << >>, << 0 >>, << 7 >>, << 0, 7 >> } }

\* the command was written; the sensor answers with one of its frames, with
\* a longer frame, or with a frame of declared length 0 or 1
SendCmdStart ==
    /\ w_frame \in Frames \cup LongFrames \cup ShortLengthStreams
    /\ w_garbage = 0
    /\ w_corrupt = -1
    /\ w_stream = w_frame
    /\ sc_res = NoResult
    /\ sc_size \in RespSizes
    /\ k_wire = w_stream
    /\ k_buf = << >>
    /\ k_res = NoParseResult

InitSendCmd ==
    EngineStart /\ FingerStatic /\ SendCmdStart /\ DriverStatic
    /\ CodecStatic /\ ManagerStatic /\ LibraryStatic /\ AppStatic

SpecSendCmd == InitSendCmd /\ [][NextWire]_vars

\* memcpy(resp_data, &rx_buf[9], data_len): the bytes written to resp_data
BytesWritten(r) == IF r.ret = ESP_OK THEN r.len ELSE 0

\* C37: as608_send_cmd writes no more bytes to resp_data than the array of
\* its caller holds, and a response whose length field declares less than 2
\* ends in an error.
C37_ResponseFitsCallerBuffer ==
    sc_res # NoResult
      => /\ BytesWritten(sc_res) <= sc_size
         /\ w_frame \in ShortLengthStreams => sc_res.ret # ESP_OK

(***************************************************************************)
(* Commands per call of process()                                          *)
(***************************************************************************)
\* C38: one call of AS608::process() sends at most one command to the
\* sensor, whatever the enrollment and match states are.
C38_OneCommandPerProcess ==
    lastOp = "process" => Len(sent) <= 1

\* a call of process() during a match that sent its one command, Search
C38_Witness ==
    /\ lastOp = "process"
    /\ Len(sent) = 1
    /\ sent[1].cmd = "Search"

====
